---- MODULE Spec2Model ----
(***************************************************************************)
(* B+Tree map of lemosyne/bplus.  The tree container (root, order, len),   *)
(* the node heap reached through raw links, and the insert / remove /      *)
(* get / iter operations, translated from src/src/mem/*.rs, with the       *)
(* places where the disk sources (src/src/disk/*.rs) differ selected by    *)
(* the variable `variant`.  The disk variants carry the dirty flags, the   *)
(* resident / reference-only cells and the storage directory of            *)
(* src/src/disk/persist.rs and src/src/disk/node.rs.                       *)
(*                                                                         *)
(* Rust indices are 0-based and are kept 0-based in every name that        *)
(* carries an index (index, cursor_index, split_index, child_index);       *)
(* At / InsertAt / RemoveAt translate to the 1-based sequences of TLA+.    *)
(***************************************************************************)
EXTENDS Integers, Sequences, FiniteSets, TLC

VARIABLES
    variant,    \* which source variant runs: "mem", "lib", "disk", "diskguard", "diskmod"
    root,       \* BPTreeMap.root : Option<Link>, NULL for None
    order,      \* BPTreeMap.order
    len,        \* BPTreeMap.len
    heap,       \* the allocated nodes: address -> node
    status,     \* "ok", or "panic" / "ub" once an operation has aborted
    flags,      \* BPTree.root_is_dirty, order_is_dirty, len_is_dirty
    disk,       \* the storage directory: the metadata files and the node files
    reference,  \* the reference sorted map driven by the same calls
    recording,  \* whether the driver records its calls in `last`
    last,       \* the last call and what it returned, when recording
    driver,     \* the driver: the keys 1..driver.keys, at most driver.calls calls
    calls       \* the calls made so far, counted for the disk variants

vars == <<variant, root, order, len, heap, status, flags, disk, reference, recording,
          last, driver, calls>>

-----------------------------------------------------------------------------
(* Bounds of the model. *)

\* keys are 1..MaxKey
MaxKey == 10

\* the driver inserts while len < MaxLen (a tree that loses track of a key
\* stores it again, so len is not bounded by the number of keys)
MaxLen == 11

\* the driver of a disk variant makes at most MaxCalls calls (a disk tree that
\* has lost track of keys takes ever new shapes; the mem tree does not, and
\* its driver is not limited)
MaxCalls == 9

\* a driver that records its calls uses the keys 1..MaxRecordedKey
MaxRecordedKey == 7

\* keys 1..MaxVersionedKey can be inserted with a second value
MaxVersionedKey == 1

\* trees are built with an order in DEFAULT_ORDER..MaxOrder
MaxOrder == 4

\* the driver of the persistence calls uses the keys 1..MaxPersistKey
MaxPersistKey == 4

\* the driver of the persistence calls makes at most MaxPersistCalls calls
MaxPersistCalls == 7

\* the driver writes through a guard to the keys 1..MaxGuardKey
MaxGuardKey == 1

\* the driver of the trees built with any order uses the keys 1..MaxAnyOrderKey
MaxAnyOrderKey == 3

\* the driver of the tree of lib.rs makes at most MaxLibCalls calls
MaxLibCalls == 11

(* Program constants. *)

DEFAULT_ORDER == 3

\* Option::None of a link or of a returned value
NULL == 0

\* a link whose target has been freed
DANGLING == -1

\* a metadata file that does not exist
NoFile == -2

\* a metadata file whose bytes do not decode
Garbage == -3

Keys == 1..MaxKey

Orders == DEFAULT_ORDER..MaxOrder

\* the keys the driver calls the tree with
CallKeys == 1..driver.keys

\* the value inserted with key k: k itself, or k + MaxKey for the keys that
\* have a second version, so that the values of two keys never coincide
InsertInputs ==
    {<<k, k>> : k \in CallKeys} \cup {<<k, k + MaxKey>> : k \in 1..MaxVersionedKey}

-----------------------------------------------------------------------------
(* Vec operations, with Rust's 0-based indices. *)

At(s, i) == s[i + 1]

\* Vec::push in the place of Vec::insert
InsertAtEnd(s, i, x) == Append(s, x)

InsertAt(s, i, x) == SubSeq(s, 1, i) \o <<x>> \o SubSeq(s, i + 1, Len(s))

RemoveAt(s, i) == SubSeq(s, 1, i) \o SubSeq(s, i + 2, Len(s))

\* the slot keeps what it held
SetAtNothing(s, i, x) == s

SetAt(s, i, x) == [s EXCEPT ![i + 1] = x]

\* s[..i] and s[i..]
Prefix(s, i) == SubSeq(s, 1, i)

\* the elements after index i
SuffixAfter(s, i) == SubSeq(s, i + 2, Len(s))

Suffix(s, i) == SubSeq(s, i + 1, Len(s))

\* the position of the first element, whatever x is
first_position(s, x) == 0

\* Vec::iter().position(|probe| *probe == x), -1 for None
Position(s, x) ==
    IF \E i \in 1..Len(s) : s[i] = x
    THEN (CHOOSE i \in 1..Len(s) : s[i] = x /\ \A j \in 1..(i - 1) : s[j] # x) - 1
    ELSE -1

\* slice::binary_search on keys[left..right]: Ok(index) as found = TRUE,
\* Err(index) as found = FALSE
RECURSIVE binary_search_range(_, _, _, _)
binary_search_range(keys, key, left, right) ==
    IF left >= right
    THEN [found |-> FALSE, index |-> left]
    ELSE LET mid == left + ((right - left) \div 2)
         IN  IF At(keys, mid) < key
             THEN binary_search_range(keys, key, mid + 1, right)
             ELSE IF At(keys, mid) > key
                  THEN binary_search_range(keys, key, left, mid)
                  ELSE [found |-> TRUE, index |-> mid]

binary_search(keys, key) == binary_search_range(keys, key, 0, Len(keys))

-----------------------------------------------------------------------------
(* Nodes. *)

\* a leaf built without the link to the next leaf
\* the sources whose nodes carry a dirty flag (disk/insert.rs, disk/get.rs,
\* disk/guard.rs, disk/persist.rs)
HasDirtyFlag == variant \in {"disk", "diskguard"}

\* the sources whose nodes carry a uuid (disk/node.rs)
HasUuid == variant \notin {"mem", "lib"}

LeafUnlinked(keys, values, parent, next_leaf) ==
    [kind |-> "leaf", keys |-> keys, values |-> values, children |-> <<>>,
     parent |-> parent, next_leaf |-> NULL, uuid |-> NULL, dirty |-> HasDirtyFlag]

\* a node is built with `dirty: true` (disk/insert.rs 24, 76, 89, 157, 181);
\* its uuid is drawn when it is put on the heap
Leaf(keys, values, parent, next_leaf) ==
    [kind |-> "leaf", keys |-> keys, values |-> values, children |-> <<>>,
     parent |-> parent, next_leaf |-> next_leaf, uuid |-> NULL, dirty |-> HasDirtyFlag]

\* a node built without children
InternalWithoutChildren(keys, children, parent) ==
    [kind |-> "internal", keys |-> keys, values |-> <<>>, children |-> <<>>,
     parent |-> parent, next_leaf |-> NULL, uuid |-> NULL, dirty |-> HasDirtyFlag]

Internal(keys, children, parent) ==
    [kind |-> "internal", keys |-> keys, values |-> <<>>, children |-> children,
     parent |-> parent, next_leaf |-> NULL, uuid |-> NULL, dirty |-> HasDirtyFlag]

\* NodeRef::Unloaded(uuid): a cell that holds only the identity of its node
Unloaded(uuid) ==
    [kind |-> "unloaded", keys |-> <<>>, values |-> <<>>, children |-> <<>>,
     parent |-> NULL, next_leaf |-> NULL, uuid |-> uuid, dirty |-> FALSE]

\* usize::div_ceil(2)
DivCeil2(n) == (n + 1) \div 2

is_overfull(node) == Len(node.keys) > order

\* the threshold of internal nodes applied to leaves too
is_underfull_floor(node) == Len(node.keys) < order \div 2

is_underfull(node) ==
    IF node.kind = "leaf"
    THEN Len(node.keys) < DivCeil2(order)
    ELSE Len(node.keys) < order \div 2

\* no node has a key to lend
never_lends(node) == FALSE

has_extra_keys(node) ==
    IF node.kind = "leaf"
    THEN Len(node.keys) > DivCeil2(order)
    ELSE Len(node.keys) > order \div 2

-----------------------------------------------------------------------------
(* The heap.  Box::into_raw(Box::new(..)) returns an address that is not in *)
(* use; Box::from_raw(..) dropped frees it.                                *)

MaxAddr(h) == IF DOMAIN h = {} THEN 0 ELSE CHOOSE a \in DOMAIN h : \A b \in DOMAIN h : b <= a

Alloc(h) == MaxAddr(h) + 1

SetMax(S) == IF S = {} THEN 0 ELSE CHOOSE a \in S : \A b \in S : b <= a

\* the links of a node or of a node file
LinksOf(node) ==
    {node.children[i] : i \in 1..Len(node.children)} \cup {node.parent, node.next_leaf}

\* the uuids in use: those of the cells, of the node files and of the links
\* stored in the files
UuidsOf(h, d) ==
    ({h[a].uuid : a \in DOMAIN h} \cup DOMAIN d.nodes \cup {d.root}
       \cup UNION {LinksOf(d.nodes[u]) : u \in DOMAIN d.nodes})
    \ {NULL, DANGLING, NoFile, Garbage}

\* Uuid::new_v4(): a uuid that nothing else carries
new_v4(h) == IF HasUuid THEN SetMax(UuidsOf(h, disk)) + 1 ELSE NULL

\* Link::new(node): the node in a cell of its own
Put(h, a, node) ==
    [x \in DOMAIN h \cup {a} |-> IF x = a THEN [node EXCEPT !.uuid = new_v4(h)] ELSE h[x]]

Free(h, a) == [x \in DOMAIN h \ {a} |-> h[x]]

EmptyHeap == [x \in {} |-> Leaf(<<>>, <<>>, NULL, NULL)]

\* the metadata flags of a tree that has never been persisted
NewFlags == [root |-> TRUE, order |-> TRUE, len |-> TRUE]

\* the flags after load() and after persist_metadata()
CleanFlags == [root |-> FALSE, order |-> FALSE, len |-> FALSE]

\* a storage path at which nothing has been created yet
EmptyDisk ==
    [dir |-> FALSE, root |-> NoFile, order |-> NoFile, len |-> NoFile,
     nodes |-> [u \in {} |-> Unloaded(NULL)]]

\* no file written
NoWrites == [meta |-> {}, nodes |-> {}]

\* the tree container as one value, with the files the call at hand has
\* written so far and the outcome of its searches for a link by address
Tree ==
    [root |-> root, len |-> len, heap |-> heap, status |-> status,
     flags |-> flags, disk |-> disk, written |-> NoWrites, search |-> "found"]

\* an index out of range or an unwrap of None aborts the call
Panic(t) == [t EXCEPT !.status = "panic"]

\* a link to a freed node is dereferenced
UseAfterFree(t) == [t EXCEPT !.status = "ub"]

-----------------------------------------------------------------------------
(* Descent (mem/get.rs 13-19, mem/insert.rs 28-35, mem/remove.rs 17-23):   *)
(* at an internal node a hit at i goes to child i + 1, a miss at i to      *)
(* child i.  Returns the leaf and the index by which it was reached.       *)

\* a hit at i goes to child i, like a miss
child_index_left(keys, key) == binary_search(keys, key).index

child_index(keys, key) ==
    LET bs == binary_search(keys, key)
    IN  IF bs.found THEN bs.index + 1 ELSE bs.index

\* a descent of one level
descend_once(h, cursor, cursor_index, key) ==
    IF h[cursor].kind = "internal"
    THEN LET index == child_index(h[cursor].keys, key)
         IN  [cursor |-> At(h[cursor].children, index), cursor_index |-> index]
    ELSE [cursor |-> cursor, cursor_index |-> cursor_index]

RECURSIVE descend(_, _, _, _)
descend(h, cursor, cursor_index, key) ==
    IF h[cursor].kind = "internal"
    THEN LET index == child_index(h[cursor].keys, key)
         IN  descend(h, At(h[cursor].children, index), index, key)
    ELSE [cursor |-> cursor, cursor_index |-> cursor_index]

-----------------------------------------------------------------------------
(* get_key_value / get / contains_key *)

None == [some |-> FALSE, key |-> NULL, value |-> NULL]

Some(k, v) == [some |-> TRUE, key |-> k, value |-> v]

get_key_value(t, key) ==
    IF t.root = NULL
    THEN None
    ELSE LET cursor == descend(t.heap, t.root, 0, key).cursor
             node == t.heap[cursor]
             bs == binary_search(node.keys, key)
         IN  IF bs.found
             THEN Some(At(node.keys, bs.index), At(node.values, bs.index))
             ELSE None

\* Option<&V>: the value, NULL for None
get(t, key) == get_key_value(t, key).value

contains_key(t, key) == get_key_value(t, key).some

-----------------------------------------------------------------------------
(* insert_internal(key, cursor, child): mem/insert.rs 111-181 *)

\* the parent written into the new sibling of a split root leaf:
\* disk/mod.rs 217 writes it through the cursor link, not the sibling link
root_split_sibling_target(cursor, sibling) ==
    IF variant = "diskmod" THEN cursor ELSE sibling

\* the moved children keep the parent they had
keep_parents(h, children, target) == h

\* for child in sibling_node.children: child.parent = Some(target)
set_parents(h, children, target) ==
    [a \in DOMAIN h |->
        IF \E i \in 1..Len(children) : children[i] = a
        THEN [h[a] EXCEPT !.parent = target]
        ELSE h[a]]

RECURSIVE insert_internal(_, _, _, _)
insert_internal(t, key, cursor, child) ==
    IF cursor \notin DOMAIN t.heap
    THEN UseAfterFree(t)
    ELSE
    LET node == t.heap[cursor]
        index == child_index(node.keys, key)
        keys1 == InsertAt(node.keys, index, key)
        children1 == InsertAt(node.children, index + 1, child)
        h1 == [t.heap EXCEPT ![cursor].keys = keys1, ![cursor].children = children1]
    IN  IF node.kind # "internal"
        THEN t
        ELSE IF ~is_overfull(h1[cursor])
        THEN [t EXCEPT !.heap = h1]
        ELSE
        LET split_index == Len(keys1) \div 2
            sibling_keys == Suffix(keys1, split_index + 1)
            sibling_children == Suffix(children1, split_index + 1)
            split_key == At(keys1, split_index)
            sibling == Alloc(h1)
            h2 == Put([h1 EXCEPT ![cursor].keys = Prefix(keys1, split_index),
                                 ![cursor].children = Prefix(children1, split_index + 1)],
                      sibling, Internal(sibling_keys, sibling_children, node.parent))
            h3 == set_parents(h2, sibling_children, sibling)
        IN  IF cursor = t.root
            THEN LET new_root == Alloc(h3)
                     h4 == Put(h3, new_root,
                               Internal(<<split_key>>, <<cursor, sibling>>, NULL))
                 IN  [t EXCEPT !.heap = [h4 EXCEPT ![sibling].parent = new_root,
                                                   ![cursor].parent = new_root],
                               !.root = new_root]
            ELSE IF node.parent = NULL
                 THEN Panic([t EXCEPT !.heap = h3])
                 ELSE insert_internal([t EXCEPT !.heap = h3], split_key, node.parent, sibling)

(* insert(key, value): mem/insert.rs 8-107.  Returns the tree and the      *)
(* returned Option<V> (NULL for None).                                     *)

split_leaf(t, cursor) ==
    LET node == t.heap[cursor]
        split_index == Len(node.keys) \div 2
        sibling_keys == Suffix(node.keys, split_index)
        sibling_values == Suffix(node.values, split_index)
        split_key == At(sibling_keys, 0)
        sibling == Alloc(t.heap)
        h1 == Put([t.heap EXCEPT ![cursor].keys = Prefix(node.keys, split_index),
                                 ![cursor].values = Prefix(node.values, split_index),
                                 ![cursor].next_leaf = sibling],
                  sibling, Leaf(sibling_keys, sibling_values, node.parent, node.next_leaf))
    IN  IF cursor = t.root
        THEN LET new_root == Alloc(h1)
                 h2 == Put(h1, new_root,
                           Internal(<<split_key>>, <<cursor, sibling>>, NULL))
                 h3 == [h2 EXCEPT ![cursor].parent = new_root]
                 h4 == [h3 EXCEPT ![root_split_sibling_target(cursor, sibling)].parent
                                      = new_root]
             IN  [t EXCEPT !.heap = h4, !.root = new_root]
        ELSE IF node.parent = NULL
             THEN Panic([t EXCEPT !.heap = h1])
             ELSE insert_internal([t EXCEPT !.heap = h1], split_key, node.parent, sibling)

insert(t, key, value) ==
    IF t.root = NULL
    THEN LET new_root == Alloc(t.heap)
         IN  [t |-> [t EXCEPT !.heap = Put(@, new_root,
                                           Leaf(<<key>>, <<value>>, NULL, NULL)),
                              !.root = new_root,
                              !.len = @ + 1],
              ret |-> NULL]
    ELSE LET cursor == descend(t.heap, t.root, 0, key).cursor
             node == t.heap[cursor]
             bs == binary_search(node.keys, key)
         IN  IF bs.found
             THEN [t |-> [t EXCEPT !.heap[cursor].values = SetAt(@, bs.index, value)],
                   ret |-> At(node.values, bs.index)]
             ELSE LET t1 == [t EXCEPT
                                !.heap[cursor].keys = InsertAt(@, bs.index, key),
                                !.heap[cursor].values = InsertAt(@, bs.index, value),
                                !.len = @ + 1]
                  IN  [t |-> IF ~is_overfull(t1.heap[cursor])
                             THEN t1
                             ELSE split_leaf(t1, cursor),
                       ret |-> NULL]

-----------------------------------------------------------------------------
(* remove_entry_internal(key, cursor, child): mem/remove.rs 151-337.       *)
(* Removes separator `key` and link `child` from internal node `cursor`,   *)
(* frees `child`, and rebalances `cursor` against its siblings.            *)

RECURSIVE remove_entry_internal(_, _, _, _)

\* the index of `link` among `links`: mem/remove.rs 177-181 and 196-200 look
\* for the link itself (iter().position); lib.rs 600 and 610 run a binary
\* search by address over links that are in key order, which finds the link
\* that is probed first and may miss any other, as the addresses fall
find_link(t, links, link) ==
    IF variant = "lib" /\ t.search = "missed" /\ Position(links, link) # Len(links) \div 2
    THEN -1
    ELSE Position(links, link)

\* the parent written into the child that an internal node borrows:
\* mem/remove.rs 219-226 and 248-255 write the borrowing node, lib.rs 631-651
\* and 676-696 write the sibling the child comes from
borrowed_child_parent(cursor, sibling) ==
    IF variant = "lib" THEN sibling ELSE cursor

\* mem/remove.rs 195-333: `cursor` is an underfull non-root internal node
rebalance_internal(t, cursor) ==
    LET h == t.heap
        node == h[cursor]
        p == node.parent
        parent == h[p]
        cursor_index == find_link(t, parent.children, cursor)
        has_left == cursor_index > 0
        has_right == cursor_index + 1 < Len(parent.children)
        left == At(parent.children, cursor_index - 1)
        right == At(parent.children, cursor_index + 1)
    IN  IF p = NULL
        THEN Panic(t)
        ELSE IF p \notin DOMAIN h
        THEN UseAfterFree(t)
        ELSE IF parent.kind # "internal"
        THEN t
        ELSE IF cursor_index < 0
        THEN Panic(t)
        ELSE IF has_left /\ h[left].kind = "internal" /\ has_extra_keys(h[left])
        THEN \* borrow through the parent from the left sibling
             LET max_key == At(h[left].keys, Len(h[left].keys) - 1)
                 max_child == At(h[left].children, Len(h[left].children) - 1)
             IN  [t EXCEPT !.heap =
                    [h EXCEPT
                        ![left].keys = Prefix(@, Len(@) - 1),
                        ![left].children = Prefix(@, Len(@) - 1),
                        ![p].keys = SetAt(@, cursor_index - 1, max_key),
                        ![cursor].keys = InsertAt(@, 0, At(parent.keys, cursor_index - 1)),
                        ![cursor].children = InsertAt(@, 0, max_child),
                        ![max_child].parent = borrowed_child_parent(cursor, left)]]
        ELSE IF has_right /\ h[right].kind = "internal" /\ has_extra_keys(h[right])
        THEN \* borrow through the parent from the right sibling
             LET min_key == At(h[right].keys, 0)
                 min_child == At(h[right].children, 0)
             IN  [t EXCEPT !.heap =
                    [h EXCEPT
                        ![right].keys = RemoveAt(@, 0),
                        ![right].children = RemoveAt(@, 0),
                        ![p].keys = SetAt(@, cursor_index, min_key),
                        ![cursor].keys = Append(@, At(parent.keys, cursor_index)),
                        ![cursor].children = Append(@, min_child),
                        ![min_child].parent = borrowed_child_parent(cursor, right)]]
        ELSE IF has_left /\ h[left].kind = "internal"
        THEN \* merge the cursor into the left sibling
             LET h1 == [set_parents(h, node.children, left) EXCEPT
                           ![left].keys = @ \o <<At(parent.keys, cursor_index - 1)>>
                                            \o node.keys,
                           ![left].children = @ \o node.children,
                           ![cursor].keys = <<>>,
                           ![cursor].children = <<>>]
             IN  remove_entry_internal([t EXCEPT !.heap = h1],
                                       At(parent.keys, cursor_index - 1), p, cursor)
        ELSE IF has_right /\ h[right].kind = "internal"
        THEN \* merge the right sibling into the cursor
             LET h1 == [set_parents(h, h[right].children, cursor) EXCEPT
                           ![cursor].keys = @ \o <<At(parent.keys, cursor_index)>>
                                              \o h[right].keys,
                           ![cursor].children = @ \o h[right].children,
                           ![right].keys = <<>>,
                           ![right].children = <<>>]
             IN  remove_entry_internal([t EXCEPT !.heap = h1],
                                       At(parent.keys, cursor_index), p, right)
        ELSE t

remove_entry_internal(t, key, cursor, child) ==
    LET h == t.heap
        node == h[cursor]
    IN  IF cursor \notin DOMAIN h
        THEN UseAfterFree(t)
        ELSE IF cursor = t.root /\ node.kind = "internal" /\ Len(node.keys) = 1
        THEN \* root shrink: the other child becomes the root
             [t EXCEPT !.root = IF At(node.children, 1) = child
                                THEN At(node.children, 0)
                                ELSE At(node.children, 1),
                       !.heap = Free(Free(h, cursor), child)]
        ELSE IF node.kind # "internal"
        THEN t
        ELSE
        LET bs == binary_search(node.keys, key)
            child_index_ == find_link(t, node.children, child)
            h1 == [h EXCEPT ![cursor].keys = RemoveAt(@, bs.index)]
            h2 == Free([h1 EXCEPT ![cursor].children = RemoveAt(@, child_index_)], child)
            t2 == [t EXCEPT !.heap = h2]
        IN  IF ~bs.found
            THEN Panic(t)
            ELSE IF child_index_ < 0
            THEN Panic([t EXCEPT !.heap = h1])
            ELSE IF ~is_underfull(h2[cursor]) \/ cursor = t.root
            THEN t2
            ELSE rebalance_internal(t2, cursor)

-----------------------------------------------------------------------------
(* remove_entry(key): mem/remove.rs 8-149, disk/remove.rs 11-161 *)

\* the index of the parent separator handed to remove_entry_internal when
\* the right sibling is merged into the leaf at cursor_index:
\* mem/remove.rs 136 takes parent.keys[cursor_index],
\* disk/remove.rs 148 and disk/mod.rs 454 take parent.keys[cursor_index + 1]
\* the separator after the one between the leaf and its right sibling
next_separator_index(cursor_index) == cursor_index + 1

merge_right_separator_index(cursor_index) ==
    IF variant \in {"mem", "lib"} THEN cursor_index ELSE cursor_index + 1

\* mem/remove.rs 118 returns after the leaf has been merged into its left
\* sibling.  lib.rs 455-505 does not: it goes on to the test for a right
\* sibling, which reads the children of the parent (freed if the root shrank)
\* and, when the parent still has a child at cursor_index + 1, appends that
\* leaf's entries to the leaf that has just been freed
after_merge_left(t, p, cursor_index) ==
    IF variant # "lib" \/ t.status # "ok"
    THEN t
    ELSE IF p \notin DOMAIN t.heap
    THEN UseAfterFree(t)
    ELSE IF cursor_index + 1 < Len(t.heap[p].children)
            /\ At(t.heap[p].children, cursor_index + 1) \in DOMAIN t.heap
            /\ t.heap[At(t.heap[p].children, cursor_index + 1)].kind = "leaf"
    THEN UseAfterFree(t)
    ELSE t

\* mem/remove.rs 46-144: `cursor` is an underfull non-root leaf reached as
\* child cursor_index.  fell_through: no branch returned Some((key, value))
rebalance_leaf(t, cursor, cursor_index) ==
    LET h == t.heap
        node == h[cursor]
        p == node.parent
        parent == h[p]
        has_left == cursor_index > 0
        has_right == cursor_index + 1 < Len(parent.children)
        left == At(parent.children, cursor_index - 1)
        right == At(parent.children, cursor_index + 1)
        sep == merge_right_separator_index(cursor_index)
        done(t1) == [t |-> t1, fell_through |-> FALSE]
    IN  IF p = NULL
        THEN done(Panic(t))
        ELSE IF p \notin DOMAIN h
        THEN done(UseAfterFree(t))
        ELSE IF parent.kind # "internal"
        THEN [t |-> t, fell_through |-> TRUE]
        ELSE IF has_left /\ h[left].kind = "leaf" /\ has_extra_keys(h[left])
        THEN \* borrow the max entry of the left sibling
             LET max_key == At(h[left].keys, Len(h[left].keys) - 1)
                 max_value == At(h[left].values, Len(h[left].values) - 1)
             IN  done([t EXCEPT !.heap =
                    [h EXCEPT
                        ![left].keys = Prefix(@, Len(@) - 1),
                        ![left].values = Prefix(@, Len(@) - 1),
                        ![cursor].keys = InsertAt(@, 0, max_key),
                        ![cursor].values = InsertAt(@, 0, max_value),
                        ![p].keys = SetAt(@, cursor_index - 1, max_key)]])
        ELSE IF has_right /\ h[right].kind = "leaf" /\ has_extra_keys(h[right])
        THEN \* borrow the min entry of the right sibling
             LET min_key == At(h[right].keys, 0)
                 min_value == At(h[right].values, 0)
             IN  done([t EXCEPT !.heap =
                    [h EXCEPT
                        ![right].keys = RemoveAt(@, 0),
                        ![right].values = RemoveAt(@, 0),
                        ![cursor].keys = Append(@, min_key),
                        ![cursor].values = Append(@, min_value),
                        ![p].keys = SetAt(@, cursor_index, At(h[right].keys, 1))]])
        ELSE IF has_left /\ h[left].kind = "leaf"
        THEN \* merge the leaf into the left sibling
             LET h1 == [h EXCEPT
                           ![left].keys = @ \o node.keys,
                           ![left].values = @ \o node.values,
                           ![left].next_leaf = node.next_leaf,
                           ![cursor].keys = <<>>,
                           ![cursor].values = <<>>]
             IN  done(after_merge_left(remove_entry_internal([t EXCEPT !.heap = h1],
                                                             At(parent.keys, cursor_index - 1),
                                                             p, cursor),
                                       p, cursor_index))
        ELSE IF has_right /\ h[right].kind = "leaf"
        THEN \* merge the right sibling into the leaf
             LET h1 == [h EXCEPT
                           ![cursor].keys = @ \o h[right].keys,
                           ![cursor].values = @ \o h[right].values,
                           ![cursor].next_leaf = h[right].next_leaf,
                           ![right].keys = <<>>,
                           ![right].values = <<>>]
             IN  IF sep >= Len(parent.keys)
                 THEN done(Panic([t EXCEPT !.heap = h1]))
                 ELSE done(remove_entry_internal([t EXCEPT !.heap = h1],
                                                 At(parent.keys, sep), p, right))
        ELSE [t |-> t, fell_through |-> TRUE]

\* the entry leaves the leaf, the count is not touched
remove_from_leaf_keeping_len(t, cursor, index) ==
    [t EXCEPT !.heap[cursor].keys = RemoveAt(@, index),
              !.heap[cursor].values = RemoveAt(@, index)]

\* mem/remove.rs 31-33: the entry leaves the leaf and the count
remove_from_leaf(t, cursor, index) ==
    [t EXCEPT !.heap[cursor].keys = RemoveAt(@, index),
              !.heap[cursor].values = RemoveAt(@, index),
              !.len = @ - 1]

\* an emptied root stays in place
keep_root(t, cursor) == t

\* mem/remove.rs 38-42: clean out the root if the removal emptied it;
\* lib.rs 371 goes on with the emptied root
clean_root(t, cursor) ==
    IF variant # "lib" /\ cursor = t.root /\ t.heap[cursor].keys = <<>>
    THEN [t EXCEPT !.heap = Free(@, cursor), !.root = NULL]
    ELSE t

\* Returns the tree and the returned Option<(K, V)>
remove_entry(t, key) ==
    IF t.root = NULL
    THEN [t |-> t, ret |-> None]
    ELSE LET d == descend(t.heap, t.root, 0, key)
             cursor == d.cursor
             node == t.heap[cursor]
             bs == binary_search(node.keys, key)
             t1 == remove_from_leaf(t, cursor, bs.index)
             entry == Some(At(node.keys, bs.index), At(node.values, bs.index))
         IN  IF ~bs.found
             THEN [t |-> t, ret |-> None]
             ELSE IF ~is_underfull(t1.heap[cursor]) \/ cursor = t.root
             THEN [t |-> clean_root(t1, cursor), ret |-> entry]
             ELSE LET r == rebalance_leaf(t1, cursor, d.cursor_index)
                  IN  [t |-> r.t, ret |-> IF r.fell_through THEN None ELSE entry]

\* remove(key): the value of remove_entry(key), NULL for None
remove(t, key) ==
    LET r == remove_entry(t, key) IN [t |-> r.t, ret |-> r.ret.value]

-----------------------------------------------------------------------------
(* iter() and Iter::next: mem/iter.rs 8-34, 93-119.  The items of a full   *)
(* traversal, and whether next() aborted on an index out of range.         *)

\* the descent through the last child
RECURSIVE rightmost_leaf(_, _)
rightmost_leaf(h, cursor) ==
    IF h[cursor].kind = "internal"
    THEN rightmost_leaf(h, At(h[cursor].children, Len(h[cursor].children) - 1))
    ELSE cursor

RECURSIVE leftmost_leaf(_, _)
leftmost_leaf(h, cursor) ==
    IF h[cursor].kind = "internal"
    THEN leftmost_leaf(h, At(h[cursor].children, 0))
    ELSE cursor

RECURSIVE iter_next(_, _, _, _, _)
iter_next(h, cursor, index, remaining, items) ==
    IF remaining = 0 \/ cursor = NULL
    THEN [items |-> items, aborted |-> FALSE]
    ELSE IF cursor \notin DOMAIN h
    THEN [items |-> items, aborted |-> TRUE]
    ELSE IF h[cursor].kind # "leaf"
    THEN [items |-> items, aborted |-> FALSE]
    ELSE IF index >= Len(h[cursor].keys)
    THEN [items |-> items, aborted |-> TRUE]
    ELSE LET node == h[cursor]
             item == <<At(node.keys, index), At(node.values, index)>>
         IN  IF index + 1 >= Len(node.keys)
             THEN iter_next(h, node.next_leaf, 0, remaining - 1, Append(items, item))
             ELSE iter_next(h, cursor, index + 1, remaining - 1, Append(items, item))

iter(t) ==
    IF t.root = NULL
    THEN [items |-> <<>>, aborted |-> FALSE]
    ELSE iter_next(t.heap, leftmost_leaf(t.heap, t.root), 0, t.len, <<>>)

-----------------------------------------------------------------------------
(* Addresses are opaque: the program only compares links for equality, and *)
(* the allocator may return any unused address.  Every state is kept in    *)
(* the representative where the nodes reachable from the root are numbered *)
(* 1, 2, ... in pre-order; a link to a freed node becomes DANGLING.        *)

RECURSIVE Preorder(_, _)
RECURSIVE PreorderAll(_, _)
Preorder(h, a) ==
    IF a \notin DOMAIN h THEN <<>> ELSE <<a>> \o PreorderAll(h, h[a].children)

PreorderAll(h, s) ==
    IF s = <<>> THEN <<>> ELSE Preorder(h, Head(s)) \o PreorderAll(h, Tail(s))

RECURSIVE Ascending(_)
Ascending(S) ==
    IF S = {}
    THEN <<>>
    ELSE LET m == CHOOSE a \in S : \A b \in S : a <= b
         IN  <<m>> \o Ascending(S \ {m})

Renumber(t) ==
    LET h == t.heap
        pre == Preorder(h, t.root)
        ord == pre \o Ascending(DOMAIN h \ {pre[i] : i \in 1..Len(pre)})
        new(a) == IF a = NULL
                  THEN NULL
                  ELSE IF a \in DOMAIN h
                       THEN CHOOSE i \in 1..Len(ord) :
                                ord[i] = a /\ \A j \in 1..(i - 1) : ord[j] # a
                       ELSE DANGLING
        d == t.disk
        us == UuidsOf(h, d)
        rank(u) == IF \E i \in 1..Len(ord) : h[ord[i]].uuid = u
                   THEN CHOOSE i \in 1..Len(ord) :
                            h[ord[i]].uuid = u /\ \A j \in 1..(i - 1) : h[ord[j]].uuid # u
                   ELSE Len(ord) + u
        new_uuid(u) == IF u \in us
                       THEN 1 + Cardinality({w \in us : rank(w) < rank(u)})
                       ELSE u
        old_uuid(n) == CHOOSE u \in us : new_uuid(u) = n
    IN  [t EXCEPT
            !.root = new(t.root),
            !.heap = [i \in 1..Len(ord) |->
                        [h[ord[i]] EXCEPT
                            !.children = [j \in 1..Len(@) |-> new(@[j])],
                            !.parent = new(@),
                            !.next_leaf = new(@),
                            !.uuid = new_uuid(@)]],
            !.disk = [d EXCEPT
                        !.root = new_uuid(@),
                        !.nodes = [n \in {new_uuid(u) : u \in DOMAIN d.nodes} |->
                                     [d.nodes[old_uuid(n)] EXCEPT
                                         !.children = [j \in 1..Len(@) |-> new_uuid(@[j])],
                                         !.parent = new_uuid(@),
                                         !.next_leaf = new_uuid(@),
                                         !.uuid = new_uuid(@)]]]]

-----------------------------------------------------------------------------
(* The node cache and persistence of the disk backend: disk/node.rs,       *)
(* disk/get.rs, disk/guard.rs, disk/persist.rs.  Every operation returns   *)
(* the tree after it and whether it returned Err.                          *)

\* the cell is handed back as it is
access_without_read(t, a) == [t |-> t, err |-> FALSE, error |-> "none"]

\* NodeRef::access / access_mut: a reference-only cell reads the file of its
\* uuid and becomes resident; every link of the node read is a cell of its
\* own holding only a uuid (Link::deserialize).  A missing file is Err(IO), a
\* file that does not decode is Err(Serde).
access(t, a) ==
    LET h == t.heap
    IN  IF a \notin DOMAIN h
        THEN [t |-> UseAfterFree(t), err |-> TRUE, error |-> "none"]
        ELSE IF h[a].kind # "unloaded"
        THEN [t |-> t, err |-> FALSE, error |-> "none"]
        ELSE IF h[a].uuid \notin DOMAIN t.disk.nodes
        THEN [t |-> t, err |-> TRUE, error |-> "IO"]
        ELSE IF t.disk.nodes[h[a].uuid].kind = "garbage"
        THEN [t |-> t, err |-> TRUE, error |-> "Serde"]
        ELSE LET f == t.disk.nodes[h[a].uuid]
                 base == MaxAddr(h)
                 n == Len(f.children)
                 parent_cell == IF f.parent = NULL THEN NULL ELSE base + n + 1
                 next_cell == IF f.next_leaf = NULL THEN NULL ELSE base + n + 2
                 cells == (base + 1)..(base + n) \cup ({parent_cell, next_cell} \ {NULL})
                 node == [f EXCEPT !.children = [i \in 1..n |-> base + i],
                                   !.parent = parent_cell,
                                   !.next_leaf = next_cell]
             IN  [t |-> [t EXCEPT !.heap =
                            [x \in DOMAIN h \cup cells |->
                                IF x = a THEN node
                                ELSE IF x \in DOMAIN h THEN h[x]
                                ELSE IF x <= base + n THEN Unloaded(f.children[x - base])
                                ELSE IF x = parent_cell THEN Unloaded(f.parent)
                                ELSE Unloaded(f.next_leaf)]],
                  err |-> FALSE, error |-> "none"]

\* a descent that marks each node it visits
RECURSIVE descend_marking(_, _, _)
descend_marking(t, cursor, key) ==
    LET r == access(t, cursor)
        marked == [r.t EXCEPT !.heap[cursor].dirty = TRUE]
    IN  IF r.err
        THEN [t |-> r.t, cursor |-> cursor, err |-> TRUE, error |-> r.error]
        ELSE IF r.t.heap[cursor].kind = "internal"
             THEN LET node == r.t.heap[cursor]
                  IN  descend_marking(marked, At(node.children, child_index(node.keys, key)),
                                      key)
             ELSE [t |-> marked, cursor |-> cursor, err |-> FALSE, error |-> "none"]

\* disk/get.rs 25-33: the descent, faulting in each node it visits
RECURSIVE descend_access(_, _, _)
descend_access(t, cursor, key) ==
    LET r == access(t, cursor)
    IN  IF r.err
        THEN [t |-> r.t, cursor |-> cursor, err |-> TRUE, error |-> r.error]
        ELSE IF r.t.heap[cursor].kind = "internal"
             THEN LET node == r.t.heap[cursor]
                  IN  descend_access(r.t, At(node.children, child_index(node.keys, key)), key)
             ELSE [t |-> r.t, cursor |-> cursor, err |-> FALSE, error |-> "none"]

\* a node that cannot be loaded is answered like a key that is not there
get_key_value_lenient(t, key) ==
    IF t.root = NULL
    THEN [t |-> t, ret |-> None, err |-> FALSE, error |-> "none"]
    ELSE LET d == descend_access(t, t.root, key)
             node == d.t.heap[d.cursor]
             bs == binary_search(node.keys, key)
         IN  [t |-> d.t,
              ret |-> IF ~d.err /\ bs.found
                      THEN Some(At(node.keys, bs.index), At(node.values, bs.index))
                      ELSE None,
              err |-> FALSE, error |-> "none"]

\* disk/get.rs 15-46: get_key_value over cells that may be reference-only
get_key_value_access(t, key) ==
    IF t.root = NULL
    THEN [t |-> t, ret |-> None, err |-> FALSE, error |-> "none"]
    ELSE LET d == descend_access(t, t.root, key)
             node == d.t.heap[d.cursor]
             bs == binary_search(node.keys, key)
         IN  IF d.err
             THEN [t |-> d.t, ret |-> None, err |-> TRUE, error |-> d.error]
             ELSE [t |-> d.t,
                   ret |-> IF bs.found
                           THEN Some(At(node.keys, bs.index), At(node.values, bs.index))
                           ELSE None,
                   err |-> FALSE, error |-> "none"]

\* Drop of the guard of disk/guard.rs 41-54: the cell of the leaf is marked
mark_leaf(t, cursor) == [t EXCEPT !.heap[cursor].dirty = TRUE]

\* Drop of the guard of disk/get.rs 144-165: the leaf and every node reached
\* from it through the parent links is faulted in and marked; unwrap() aborts
\* on a file that cannot be read
RECURSIVE mark_path(_, _)
mark_path(t, cursor) ==
    IF cursor = NULL
    THEN t
    ELSE LET r == access(t, cursor)
         IN  IF r.t.status # "ok"
             THEN r.t
             ELSE IF r.err
             THEN Panic(r.t)
             ELSE mark_path([r.t EXCEPT !.heap[cursor].dirty = TRUE],
                            r.t.heap[cursor].parent)

guard_drop(t, cursor) ==
    IF variant = "diskguard" THEN mark_leaf(t, cursor) ELSE mark_path(t, cursor)

\* get_mut(key), a write of `value` through the guard, and the guard's release
\* (disk/get.rs 57-100, 102-110)
write_through_guard(t, key, value) ==
    IF t.root = NULL
    THEN [t |-> t, ret |-> None, err |-> FALSE, error |-> "none"]
    ELSE LET d == descend_access(t, t.root, key)
             node == d.t.heap[d.cursor]
             bs == binary_search(node.keys, key)
         IN  IF d.err
             THEN [t |-> d.t, ret |-> None, err |-> TRUE, error |-> d.error]
             ELSE IF ~bs.found
             THEN [t |-> d.t, ret |-> None, err |-> FALSE, error |-> "none"]
             ELSE [t |-> guard_drop([d.t EXCEPT !.heap[d.cursor].values =
                                                   SetAt(@, bs.index, value)],
                                    d.cursor),
                   ret |-> Some(key, value),
                   err |-> FALSE, error |-> "none"]

\* disk/persist.rs 50-78: the directory is created, each metadata file whose
\* flag is set is written and its flag cleared
persist_metadata(t) ==
    [t EXCEPT
        !.disk = [@ EXCEPT
                    !.dir = TRUE,
                    !.root = IF t.flags.root
                             THEN (IF t.root = NULL THEN NULL ELSE t.heap[t.root].uuid)
                             ELSE @,
                    !.order = IF t.flags.order THEN order ELSE @,
                    !.len = IF t.flags.len THEN t.len ELSE @],
        !.flags = CleanFlags,
        !.written.meta = @ \cup {n \in {"root", "order", "len"} : t.flags[n]}]

\* Serialize for Link (disk/node.rs 170-183): the uuid in the cell of the link
serialize_link(h, a) ==
    IF a = NULL THEN NULL ELSE IF a \in DOMAIN h THEN h[a].uuid ELSE DANGLING

\* Node::persist(path): the node is written to {path}/{uuid} with its links
\* as uuids, and its dirty flag is cleared.  Serializing a link whose cell has
\* been freed reads freed memory: the call aborts or writes what it finds
\* there, as `ub` chooses.
node_persist(t, a, ub) ==
    LET h == t.heap
        node == h[a]
        image == [node EXCEPT !.children = [i \in 1..Len(@) |-> serialize_link(h, @[i])],
                              !.parent = serialize_link(h, @),
                              !.next_leaf = serialize_link(h, @),
                              !.dirty = FALSE]
        files == t.disk.nodes
    IN  IF ub = "abort" /\ \E l \in LinksOf(node) : l # NULL /\ l \notin DOMAIN h
        THEN UseAfterFree(t)
        ELSE [t EXCEPT !.heap[a].dirty = FALSE,
                       !.written.nodes = @ \cup {node.uuid},
                       !.disk.nodes = [u \in DOMAIN files \cup {node.uuid} |->
                                          IF u = node.uuid THEN image ELSE files[u]]]

\* disk/persist.rs 80-101: every child is faulted in and visited, then the
\* node is written if its flag is set
RECURSIVE persist_recursive(_, _, _)
RECURSIVE persist_children(_, _, _)
persist_recursive(t, a, ub) ==
    LET below == IF t.heap[a].kind = "internal"
                 THEN persist_children(t, t.heap[a].children, ub)
                 ELSE [t |-> t, err |-> FALSE, error |-> "none"]
    IN  IF below.err \/ below.t.status # "ok"
        THEN below
        ELSE IF below.t.heap[a].dirty
             THEN [t |-> node_persist(below.t, a, ub), err |-> FALSE, error |-> "none"]
             ELSE below

\* no child is visited
skip_children(t, children, ub) == [t |-> t, err |-> FALSE, error |-> "none"]

persist_children(t, children, ub) ==
    IF children = <<>>
    THEN [t |-> t, err |-> FALSE, error |-> "none"]
    ELSE LET r == access(t, Head(children))
             first == IF r.err THEN r ELSE persist_recursive(r.t, Head(children), ub)
         IN  IF first.err \/ first.t.status # "ok"
             THEN first
             ELSE persist_children(first.t, Tail(children), ub)

\* disk/persist.rs 103-116
persist(t, ub) ==
    IF t.root = NULL
    THEN [t |-> t, err |-> FALSE, error |-> "none"]
    ELSE LET t1 == persist_metadata(t)
             r == access(t1, t1.root)
         IN  IF r.err THEN r ELSE persist_recursive(r.t, t1.root, ub)

\* disk/persist.rs 130-157: the loop of persist_key
RECURSIVE persist_path(_, _, _, _)
persist_path(t, cursor, key, ub) ==
    LET r == access(t, cursor)
        node == r.t.heap[cursor]
        written == IF node.dirty THEN node_persist(r.t, cursor, ub) ELSE r.t
    IN  IF r.err
        THEN r
        ELSE IF node.kind = "internal"
        THEN IF written.status # "ok"
             THEN [t |-> written, err |-> FALSE, error |-> "none"]
             ELSE persist_path(written, At(node.children, child_index(node.keys, key)),
                               key, ub)
        ELSE IF ~binary_search(node.keys, key).found
             THEN [t |-> r.t, err |-> TRUE, error |-> "UnknownKey"]
             ELSE [t |-> written, err |-> FALSE, error |-> "none"]

\* an empty tree is taken to hold every key
persist_key_of_empty(t, key, ub) ==
    IF t.root = NULL
    THEN [t |-> t, err |-> FALSE, error |-> "none"]
    ELSE persist_path(persist_metadata(t), t.root, key, ub)

\* disk/persist.rs 118-160
persist_key(t, key, ub) ==
    IF t.root = NULL
    THEN [t |-> t, err |-> TRUE, error |-> "UnknownKey"]
    ELSE persist_path(persist_metadata(t), t.root, key, ub)

\* a file that does not decode is reported like a missing file
load_error_bad_tree_only(values) ==
    IF \E i \in 1..Len(values) : values[i] \in {NoFile, Garbage}
    THEN "BadBPTree"
    ELSE "none"

\* the first failure of the three reads of load, in the order root, order,
\* len: a missing file is BadBPTree, one that does not decode is Serde
RECURSIVE load_error(_)
load_error(values) ==
    IF values = <<>>
    THEN "none"
    ELSE IF Head(values) = NoFile
    THEN "BadBPTree"
    ELSE IF Head(values) = Garbage
    THEN "Serde"
    ELSE load_error(Tail(values))

\* disk/persist.rs 23-48: the root is a reference-only cell and no flag is set
load(d) ==
    IF load_error(<<d.root, d.order, d.len>>) # "none"
    THEN [t |-> [root |-> NULL, len |-> 0, heap |-> EmptyHeap, status |-> "ok",
                 flags |-> CleanFlags, disk |-> d, written |-> NoWrites,
                 search |-> "found"],
          order |-> DEFAULT_ORDER, err |-> TRUE,
          error |-> load_error(<<d.root, d.order, d.len>>)]
    ELSE [t |-> [root |-> IF d.root = NULL THEN NULL ELSE 1,
                 len |-> d.len,
                 heap |-> IF d.root = NULL
                          THEN EmptyHeap
                          ELSE [x \in {1} |-> Unloaded(d.root)],
                 status |-> "ok", flags |-> CleanFlags, disk |-> d, written |-> NoWrites,
                 search |-> "found"],
          order |-> d.order, err |-> FALSE, error |-> "none"]

-----------------------------------------------------------------------------
(* insert and remove_entry of the disk backend over cells that may be      *)
(* reference-only: disk/insert.rs, disk/remove.rs.  Every cell is faulted  *)
(* in where the code calls access / access_mut, and `?` returns the error  *)
(* of the first access that fails with the tree as it is at that point.    *)

Done(t) == [t |-> t, err |-> FALSE, error |-> "none"]

Fail(r) == [t |-> r.t, err |-> TRUE, error |-> r.error]

Returns(t, ret) == [t |-> t, ret |-> ret, err |-> FALSE, error |-> "none"]

Fails(r, ret) == [t |-> r.t, ret |-> ret, err |-> TRUE, error |-> r.error]

\* for child in children.iter_mut(): access_mut(child)?.parent = Some(target)
\* (disk/insert.rs 161-172, disk/remove.rs 291-300, 327-336)
RECURSIVE set_parents_access(_, _, _)
set_parents_access(t, children, target) ==
    IF children = <<>>
    THEN Done(t)
    ELSE LET r == access(t, Head(children))
         IN  IF r.err
             THEN Fail(r)
             ELSE set_parents_access([r.t EXCEPT !.heap[Head(children)].parent = target],
                                     Tail(children), target)

\* disk/insert.rs 118-198
RECURSIVE insert_internal_access(_, _, _, _)
insert_internal_access(t, key, cursor, child) ==
    LET r0 == access(t, cursor)
        node == r0.t.heap[cursor]
        index == child_index(node.keys, key)
        keys1 == InsertAt(node.keys, index, key)
        children1 == InsertAt(node.children, index + 1, child)
        h1 == [r0.t.heap EXCEPT ![cursor].keys = keys1, ![cursor].children = children1]
    IN  IF r0.err
        THEN Fail(r0)
        ELSE IF node.kind # "internal"
        THEN Done(r0.t)
        ELSE IF ~is_overfull(h1[cursor])
        THEN Done([r0.t EXCEPT !.heap = h1])
        ELSE
        LET split_index == Len(keys1) \div 2
            sibling_keys == Suffix(keys1, split_index + 1)
            sibling_children == Suffix(children1, split_index + 1)
            split_key == At(keys1, split_index)
            sibling == Alloc(h1)
            h2 == Put([h1 EXCEPT ![cursor].keys = Prefix(keys1, split_index),
                                 ![cursor].children = Prefix(children1, split_index + 1)],
                      sibling, Internal(sibling_keys, sibling_children, node.parent))
            r3 == set_parents_access([r0.t EXCEPT !.heap = h2], sibling_children, sibling)
            h3 == r3.t.heap
        IN  IF r3.err
            THEN Fail(r3)
            ELSE IF cursor = t.root
            THEN LET new_root == Alloc(h3)
                     h4 == Put(h3, new_root,
                               Internal(<<split_key>>, <<cursor, sibling>>, NULL))
                 IN  Done([r3.t EXCEPT !.heap = [h4 EXCEPT ![sibling].parent = new_root,
                                                           ![cursor].parent = new_root],
                                       !.root = new_root])
            ELSE IF node.parent = NULL
                 THEN Done(Panic(r3.t))
                 ELSE insert_internal_access(r3.t, split_key, node.parent, sibling)

\* disk/insert.rs 63-108: the overfull leaf `cursor` is split
split_leaf_access(t, cursor) ==
    LET node == t.heap[cursor]
        split_index == Len(node.keys) \div 2
        sibling_keys == Suffix(node.keys, split_index)
        sibling_values == Suffix(node.values, split_index)
        split_key == At(sibling_keys, 0)
        sibling == Alloc(t.heap)
        h1 == Put([t.heap EXCEPT ![cursor].keys = Prefix(node.keys, split_index),
                                 ![cursor].values = Prefix(node.values, split_index),
                                 ![cursor].next_leaf = sibling],
                  sibling, Leaf(sibling_keys, sibling_values, node.parent, node.next_leaf))
    IN  IF cursor = t.root
        THEN LET new_root == Alloc(h1)
                 h2 == Put(h1, new_root,
                           Internal(<<split_key>>, <<cursor, sibling>>, NULL))
                 h3 == [h2 EXCEPT ![cursor].parent = new_root]
                 h4 == [h3 EXCEPT ![root_split_sibling_target(cursor, sibling)].parent
                                      = new_root]
             IN  Done([t EXCEPT !.heap = h4, !.root = new_root])
        ELSE IF node.parent = NULL
             THEN Done(Panic([t EXCEPT !.heap = h1]))
             ELSE insert_internal_access([t EXCEPT !.heap = h1], split_key, node.parent,
                                         sibling)

\* disk/insert.rs 11-115.  Returns the tree, the returned Option<V> (NULL for
\* None) and the error
insert_access(t, key, value) ==
    IF t.root = NULL
    THEN LET new_root == Alloc(t.heap)
         IN  Returns([t EXCEPT !.heap = Put(@, new_root,
                                            Leaf(<<key>>, <<value>>, NULL, NULL)),
                               !.root = new_root,
                               !.len = @ + 1],
                     NULL)
    ELSE LET d == descend_access(t, t.root, key)
             cursor == d.cursor
             node == d.t.heap[cursor]
             bs == binary_search(node.keys, key)
         IN  IF d.err
             THEN Fails(d, NULL)
             ELSE IF bs.found
             THEN Returns([d.t EXCEPT !.heap[cursor].values = SetAt(@, bs.index, value)],
                          At(node.values, bs.index))
             ELSE LET t1 == [d.t EXCEPT
                                !.heap[cursor].keys = InsertAt(@, bs.index, key),
                                !.heap[cursor].values = InsertAt(@, bs.index, value),
                                !.len = @ + 1]
                      r == split_leaf_access(t1, cursor)
                  IN  IF ~is_overfull(t1.heap[cursor])
                      THEN Returns(t1, NULL)
                      ELSE [t |-> r.t, ret |-> NULL, err |-> r.err, error |-> r.error]

-----------------------------------------------------------------------------

\* 0 <= i < s.len()
Has(s, i) == 0 <= i /\ i < Len(s)

\* disk/remove.rs 25-31: the descent of remove_entry, which keeps the index
\* of the child taken last
RECURSIVE descend_access_index(_, _, _, _)
descend_access_index(t, cursor, cursor_index, key) ==
    LET r == access(t, cursor)
    IN  IF r.err
        THEN [t |-> r.t, cursor |-> cursor, cursor_index |-> cursor_index,
              err |-> TRUE, error |-> r.error]
        ELSE IF r.t.heap[cursor].kind = "internal"
             THEN LET node == r.t.heap[cursor]
                      index == child_index(node.keys, key)
                  IN  descend_access_index(r.t, At(node.children, index), index, key)
             ELSE [t |-> r.t, cursor |-> cursor, cursor_index |-> cursor_index,
                   err |-> FALSE, error |-> "none"]

RECURSIVE remove_entry_internal_access(_, _, _, _)

\* disk/remove.rs 213-353: `cursor` is an underfull non-root internal node
rebalance_internal_access(t, cursor) ==
    LET p == t.heap[cursor].parent
        rp == access(t, p)
        parent == rp.t.heap[p]
        cursor_index == Position(parent.children, cursor)
        has_left == cursor_index > 0
        has_right == cursor_index + 1 < Len(parent.children)
        left == At(parent.children, cursor_index - 1)
        right == At(parent.children, cursor_index + 1)
        rl == IF has_left THEN access(rp.t, left) ELSE Done(rp.t)
        rr == IF has_right THEN access(rl.t, right) ELSE Done(rl.t)
    IN  IF p = NULL
        THEN Done(Panic(t))
        ELSE IF rp.err
        THEN Fail(rp)
        ELSE IF parent.kind # "internal"
        THEN Done(rp.t)
        ELSE IF cursor_index < 0
        THEN Done(Panic(rp.t))
        ELSE IF rl.err
        THEN Fail(rl)
        ELSE IF has_left /\ rl.t.heap[left].kind = "internal" /\ has_extra_keys(rl.t.heap[left])
        THEN \* borrow through the parent from the left sibling
             LET h == rl.t.heap
                 max_key == At(h[left].keys, Len(h[left].keys) - 1)
                 max_child == At(h[left].children, Len(h[left].children) - 1)
                 moved == [rl.t EXCEPT !.heap =
                             [h EXCEPT
                                ![left].keys = Prefix(@, Len(@) - 1),
                                ![left].children = Prefix(@, Len(@) - 1),
                                ![p].keys = SetAt(@, cursor_index - 1, max_key),
                                ![cursor].keys = InsertAt(@, 0, At(parent.keys, cursor_index - 1)),
                                ![cursor].children = InsertAt(@, 0, max_child)]]
             IN  set_parents_access(moved, <<max_child>>, cursor)
        ELSE IF rr.err
        THEN Fail(rr)
        ELSE IF has_right /\ rr.t.heap[right].kind = "internal"
                /\ has_extra_keys(rr.t.heap[right])
        THEN \* borrow through the parent from the right sibling
             LET h == rr.t.heap
                 min_key == At(h[right].keys, 0)
                 min_child == At(h[right].children, 0)
                 moved == [rr.t EXCEPT !.heap =
                             [h EXCEPT
                                ![right].keys = RemoveAt(@, 0),
                                ![right].children = RemoveAt(@, 0),
                                ![p].keys = SetAt(@, cursor_index, min_key),
                                ![cursor].keys = Append(@, At(parent.keys, cursor_index)),
                                ![cursor].children = Append(@, min_child)]]
             IN  set_parents_access(moved, <<min_child>>, cursor)
        ELSE IF has_left /\ rr.t.heap[left].kind = "internal"
        THEN \* merge the cursor into the left sibling
             LET h == rr.t.heap
                 node == h[cursor]
                 keyed == [rr.t EXCEPT !.heap =
                             [h EXCEPT
                                ![left].keys = @ \o <<At(parent.keys, cursor_index - 1)>>
                                                 \o node.keys,
                                ![cursor].keys = <<>>]]
                 rc == set_parents_access(keyed, node.children, left)
                 merged == [rc.t EXCEPT !.heap =
                              [@ EXCEPT ![left].children = @ \o node.children,
                                        ![cursor].children = <<>>]]
             IN  IF rc.err
                 THEN Fail(rc)
                 ELSE remove_entry_internal_access(merged, At(parent.keys, cursor_index - 1),
                                                   p, cursor)
        ELSE IF has_right /\ rr.t.heap[right].kind = "internal"
        THEN \* merge the right sibling into the cursor
             LET h == rr.t.heap
                 sibling == h[right]
                 keyed == [rr.t EXCEPT !.heap =
                             [h EXCEPT
                                ![cursor].keys = @ \o <<At(parent.keys, cursor_index)>>
                                                   \o sibling.keys,
                                ![right].keys = <<>>]]
                 rc == set_parents_access(keyed, sibling.children, cursor)
                 merged == [rc.t EXCEPT !.heap =
                              [@ EXCEPT ![cursor].children = @ \o sibling.children,
                                        ![right].children = <<>>]]
             IN  IF rc.err
                 THEN Fail(rc)
                 ELSE remove_entry_internal_access(merged, At(parent.keys, cursor_index),
                                                   p, right)
        ELSE Done(rr.t)

\* disk/remove.rs 163-353
remove_entry_internal_access(t, key, cursor, child) ==
    LET r == access(t, cursor)
        h == r.t.heap
        node == h[cursor]
    IN  IF r.err
        THEN Fail(r)
        ELSE IF cursor = t.root /\ node.kind = "internal" /\ Len(node.keys) = 1
        THEN \* root shrink: the other child becomes the root
             IF Len(node.children) < 2
             THEN Done(Panic(r.t))
             ELSE Done([r.t EXCEPT !.root = IF At(node.children, 1) = child
                                            THEN At(node.children, 0)
                                            ELSE At(node.children, 1),
                                   !.heap = Free(Free(h, cursor), child)])
        ELSE IF node.kind # "internal"
        THEN Done(r.t)
        ELSE
        LET bs == binary_search(node.keys, key)
            child_index_ == Position(node.children, child)
            h1 == [h EXCEPT ![cursor].keys = RemoveAt(@, bs.index)]
            h2 == Free([h1 EXCEPT ![cursor].children = RemoveAt(@, child_index_)], child)
            t2 == [r.t EXCEPT !.heap = h2]
        IN  IF ~bs.found
            THEN Done(Panic(r.t))
            ELSE IF child_index_ < 0
            THEN Done(Panic([r.t EXCEPT !.heap = h1]))
            ELSE IF ~is_underfull(h2[cursor]) \/ cursor = t.root
            THEN Done(t2)
            ELSE rebalance_internal_access(t2, cursor)

\* disk/remove.rs 55-155: `cursor` is an underfull non-root leaf reached as
\* child cursor_index; `entry` is what has been taken out of it
rebalance_leaf_access(t, cursor, cursor_index, entry) ==
    LET p == t.heap[cursor].parent
        rp == access(t, p)
        parent == rp.t.heap[p]
        has_left == cursor_index > 0
        has_right == cursor_index + 1 < Len(parent.children)
        left == At(parent.children, cursor_index - 1)
        right == At(parent.children, cursor_index + 1)
        rl == IF has_left THEN access(rp.t, left) ELSE Done(rp.t)
        rr == IF has_right THEN access(rl.t, right) ELSE Done(rl.t)
        sep == merge_right_separator_index(cursor_index)
        finish(r) == [t |-> r.t, ret |-> IF r.err THEN None ELSE entry,
                      err |-> r.err, error |-> r.error]
    IN  IF p = NULL
        THEN Returns(Panic(t), None)
        ELSE IF rp.err
        THEN Fails(rp, None)
        ELSE IF parent.kind # "internal"
        THEN Returns(rp.t, None)
        ELSE IF has_left /\ ~Has(parent.children, cursor_index - 1)
        THEN Returns(Panic(rp.t), None)
        ELSE IF rl.err
        THEN Fails(rl, None)
        ELSE IF has_left /\ rl.t.heap[left].kind = "leaf" /\ has_extra_keys(rl.t.heap[left])
        THEN \* borrow the max entry of the left sibling
             LET h == rl.t.heap
                 max_key == At(h[left].keys, Len(h[left].keys) - 1)
                 max_value == At(h[left].values, Len(h[left].values) - 1)
                 h1 == [h EXCEPT
                          ![left].keys = Prefix(@, Len(@) - 1),
                          ![left].values = Prefix(@, Len(@) - 1),
                          ![cursor].keys = InsertAt(@, 0, max_key),
                          ![cursor].values = InsertAt(@, 0, max_value)]
             IN  IF ~Has(parent.keys, cursor_index - 1)
                 THEN Returns(Panic([rl.t EXCEPT !.heap = h1]), None)
                 ELSE Returns([rl.t EXCEPT !.heap =
                                  [h1 EXCEPT ![p].keys = SetAt(@, cursor_index - 1, max_key)]],
                              entry)
        ELSE IF rr.err
        THEN Fails(rr, None)
        ELSE IF has_right /\ rr.t.heap[right].kind = "leaf" /\ has_extra_keys(rr.t.heap[right])
        THEN \* borrow the min entry of the right sibling
             LET h == rr.t.heap
                 min_key == At(h[right].keys, 0)
                 min_value == At(h[right].values, 0)
                 h1 == [h EXCEPT
                          ![right].keys = RemoveAt(@, 0),
                          ![right].values = RemoveAt(@, 0),
                          ![cursor].keys = Append(@, min_key),
                          ![cursor].values = Append(@, min_value)]
             IN  IF ~Has(parent.keys, cursor_index)
                 THEN Returns(Panic([rr.t EXCEPT !.heap = h1]), None)
                 ELSE Returns([rr.t EXCEPT !.heap =
                                  [h1 EXCEPT ![p].keys = SetAt(@, cursor_index,
                                                               At(h[right].keys, 1))]],
                              entry)
        ELSE IF has_left /\ rr.t.heap[left].kind = "leaf"
        THEN \* merge the leaf into the left sibling
             LET h == rr.t.heap
                 node == h[cursor]
                 h1 == [h EXCEPT
                          ![left].keys = @ \o node.keys,
                          ![left].values = @ \o node.values,
                          ![left].next_leaf = node.next_leaf,
                          ![cursor].keys = <<>>,
                          ![cursor].values = <<>>]
             IN  IF ~Has(parent.keys, cursor_index - 1)
                 THEN Returns(Panic([rr.t EXCEPT !.heap = h1]), None)
                 ELSE finish(remove_entry_internal_access(
                                 [rr.t EXCEPT !.heap = h1],
                                 At(parent.keys, cursor_index - 1), p, cursor))
        ELSE IF has_right /\ rr.t.heap[right].kind = "leaf"
        THEN \* merge the right sibling into the leaf
             LET h == rr.t.heap
                 h1 == [h EXCEPT
                          ![cursor].keys = @ \o h[right].keys,
                          ![cursor].values = @ \o h[right].values,
                          ![cursor].next_leaf = h[right].next_leaf,
                          ![right].keys = <<>>,
                          ![right].values = <<>>]
             IN  IF ~Has(parent.keys, sep)
                 THEN Returns(Panic([rr.t EXCEPT !.heap = h1]), None)
                 ELSE finish(remove_entry_internal_access(
                                 [rr.t EXCEPT !.heap = h1], At(parent.keys, sep), p, right))
        ELSE Returns(rr.t, None)

\* disk/remove.rs 11-161.  Returns the tree, the returned Option<(K, V)> and
\* the error
remove_entry_access(t, key) ==
    IF t.root = NULL
    THEN Returns(t, None)
    ELSE LET d == descend_access_index(t, t.root, 0, key)
             cursor == d.cursor
             node == d.t.heap[cursor]
             bs == binary_search(node.keys, key)
             t1 == remove_from_leaf(d.t, cursor, bs.index)
             entry == Some(At(node.keys, bs.index), At(node.values, bs.index))
         IN  IF d.err
             THEN Fails(d, None)
             ELSE IF node.kind # "leaf" \/ ~bs.found
             THEN Returns(d.t, None)
             ELSE IF ~is_underfull(t1.heap[cursor]) \/ cursor = t.root
             THEN Returns(clean_root(t1, cursor), entry)
             ELSE rebalance_leaf_access(t1, cursor, d.cursor_index, entry)

\* disk/iter.rs: the state of Iter and IterMut, as tree.iter() and
\* tree.iter_mut() build it (disk/iter.rs 11-33)
iter_access(t) ==
    [cursor |-> t.root, index |-> 0, len |-> t.len, errored |-> FALSE, at_leaves |-> FALSE]

\* the items of the iterator
NoItem == [kind |-> "none", key |-> NULL, value |-> NULL, error |-> "none"]

OkItem(key, value) == [kind |-> "ok", key |-> key, value |-> value, error |-> "none"]

ErrItem(error) == [kind |-> "err", key |-> NULL, value |-> NULL, error |-> error]

\* disk/iter.rs 85-104, 171-190: the loop down to the first leaf
RECURSIVE descend_first(_, _)
descend_first(t, cursor) ==
    LET r == access(t, cursor)
        node == r.t.heap[cursor]
    IN  IF r.err \/ r.t.status # "ok"
        THEN [t |-> r.t, cursor |-> cursor, err |-> TRUE, error |-> r.error]
        ELSE IF node.kind = "internal"
        THEN IF Has(node.children, 0)
             THEN descend_first(r.t, At(node.children, 0))
             ELSE [t |-> Panic(r.t), cursor |-> cursor, err |-> TRUE, error |-> "none"]
        ELSE [t |-> r.t, cursor |-> cursor, err |-> FALSE, error |-> "none"]

\* the iterator forgets that it has failed
next_unlatched(it) == it

\* the iterator after an access has failed
next_failed(it) == [it EXCEPT !.errored = TRUE]

\* Iter::next (disk/iter.rs 75-134) and IterMut::next (162-228), which differ
\* in the kind of reference they yield.  Returns the tree, the iterator and
\* the item.
iter_next_access(t, it) ==
    IF it.len = 0 \/ it.errored \/ it.cursor = NULL
    THEN [t |-> t, it |-> it, item |-> NoItem]
    ELSE LET d == IF it.at_leaves
                  THEN [t |-> t, cursor |-> it.cursor, err |-> FALSE, error |-> "none"]
                  ELSE descend_first(t, it.cursor)
             it1 == [it EXCEPT !.cursor = d.cursor, !.at_leaves = TRUE]
             r == access(d.t, d.cursor)
             node == r.t.heap[d.cursor]
         IN  IF d.t.status # "ok"
             THEN [t |-> d.t, it |-> it, item |-> NoItem]
             ELSE IF d.err
             THEN [t |-> d.t, it |-> next_failed(it), item |-> ErrItem(d.error)]
             ELSE IF r.t.status # "ok"
             THEN [t |-> r.t, it |-> it1, item |-> NoItem]
             ELSE IF r.err
             THEN [t |-> r.t, it |-> next_failed(it1), item |-> ErrItem(r.error)]
             ELSE IF node.kind # "leaf"
             THEN [t |-> r.t, it |-> it1, item |-> NoItem]
             ELSE IF ~Has(node.keys, it.index)
             THEN [t |-> Panic(r.t), it |-> it1, item |-> NoItem]
             ELSE [t |-> r.t,
                   it |-> IF it.index + 1 >= Len(node.keys)
                          THEN [it1 EXCEPT !.len = @ - 1, !.index = 0,
                                           !.cursor = node.next_leaf]
                          ELSE [it1 EXCEPT !.len = @ - 1, !.index = @ + 1],
                   item |-> OkItem(At(node.keys, it.index), At(node.values, it.index))]

\* n calls of next(): the tree and the iterator after them, the items they
\* returned and the remaining length reported after each
RECURSIVE iter_calls(_, _, _)
iter_calls(t, it, n) ==
    IF n = 0
    THEN [t |-> t, it |-> it, items |-> <<>>, lens |-> <<>>]
    ELSE LET r == iter_next_access(t, it)
             rest == iter_calls(r.t, r.it, n - 1)
         IN  [rest EXCEPT !.items = <<r.item>> \o @, !.lens = <<r.it.len>> \o @]

(* The state machine. *)

NoCall ==
    [op |-> "none", key |-> NULL, value |-> NULL, ret |-> None, len_before |-> 0,
     err |-> FALSE, error |-> "none"]

Driver(keys, max_calls) == [keys |-> keys, calls |-> max_calls]

InitTree ==
    /\ root = NULL
    /\ order \in Orders
    /\ len = 0
    /\ heap = EmptyHeap
    /\ status = "ok"
    /\ flags = NewFlags
    /\ disk = EmptyDisk
    /\ reference = [k \in Keys |-> NULL]
    /\ last = NoCall
    /\ calls = 0

\* BPTreeMap::with_order(order) of src/src/mem
InitMem == variant = "mem" /\ recording = FALSE /\ driver = Driver(MaxKey, MaxCalls) /\ InitTree

InitMemCalls ==
    variant = "mem" /\ recording = TRUE /\ driver = Driver(MaxRecordedKey, MaxCalls) /\ InitTree

\* BPTree::with_order(path, order) of src/src/disk, insert.rs / remove.rs / get.rs
InitDisk == variant = "disk" /\ recording = FALSE /\ driver = Driver(MaxKey, MaxCalls) /\ InitTree

InitDiskCalls ==
    variant = "disk" /\ recording = TRUE /\ driver = Driver(MaxRecordedKey, MaxCalls) /\ InitTree

\* BPTree::with_order(path, order) of src/src/disk/mod.rs
InitDiskMod ==
    variant = "diskmod" /\ recording = FALSE /\ driver = Driver(MaxKey, MaxCalls) /\ InitTree

\* with_order(order) of src/src/mem and with_order(path, order) of
\* src/src/disk take any usize (mem/mod.rs 26-32, disk/mod.rs 31-38)
InitAnyOrder ==
    /\ variant \in {"mem", "disk"}
    /\ recording = FALSE
    /\ driver = Driver(MaxAnyOrderKey, MaxPersistCalls)
    /\ root = NULL
    /\ order \in 0..MaxOrder
    /\ len = 0
    /\ heap = EmptyHeap
    /\ status = "ok"
    /\ flags = NewFlags
    /\ disk = EmptyDisk
    /\ reference = [k \in Keys |-> NULL]
    /\ last = NoCall
    /\ calls = 0

\* BPTreeMap::with_order(order) of src/src/lib.rs.  Its leaves also carry
\* prev_leaf, which insert and remove write and never read; the model leaves
\* it out.
InitLib ==
    /\ variant = "lib"
    /\ recording = FALSE
    /\ driver = Driver(MaxKey, MaxLibCalls)
    /\ InitTree
    /\ order = DEFAULT_ORDER

\* the driver of a mem tree built with an order of at least DEFAULT_ORDER
\* is not limited in its calls
Unlimited == variant = "mem" /\ order >= DEFAULT_ORDER

\* the driver may make another call
MayCall == status = "ok" /\ (~Unlimited => calls < driver.calls)

\* every cell is resident: the driver inserts and removes on such trees only
Resident == \A a \in DOMAIN heap : heap[a].kind # "unloaded"

Count == calls' = IF Unlimited THEN calls ELSE calls + 1

Store(t) ==
    /\ root' = t.root
    /\ len' = t.len
    /\ heap' = t.heap
    /\ status' = t.status
    /\ flags' = t.flags
    /\ disk' = t.disk

\* tree.insert(key, value)
Insert ==
    \E in \in InsertInputs :
        LET key == in[1]
            value == in[2]
            r == insert(Tree, key, value)
        IN  /\ MayCall
            /\ Resident
            /\ len < MaxLen
            /\ Count
            /\ Store(Renumber(r.t))
            /\ reference' = [reference EXCEPT ![key] = value]
            /\ UNCHANGED <<variant, driver, order, recording>>
            /\ last' = IF recording
                       THEN [op |-> "insert", key |-> key, value |-> value,
                             ret |-> IF r.ret = NULL \/ r.t.status # "ok"
                                     THEN None
                                     ELSE Some(key, r.ret),
                             len_before |-> len, err |-> FALSE, error |-> "none"]
                       ELSE last

\* what the searches by address of a call may give
SearchOutcomes == IF variant = "lib" THEN {"found", "missed"} ELSE {"found"}

\* tree.remove_entry(&key); tree.remove(&key) returns the value of its result
Remove ==
    \E key \in CallKeys : \E search \in SearchOutcomes :
        LET r == remove_entry([Tree EXCEPT !.search = search], key)
        IN  /\ MayCall
            /\ Resident
            /\ Count
            /\ Store(Renumber(r.t))
            /\ reference' = [reference EXCEPT ![key] = NULL]
            /\ UNCHANGED <<variant, driver, order, recording>>
            /\ last' = IF recording
                       THEN [op |-> "remove", key |-> key, value |-> NULL,
                             ret |-> IF r.t.status = "ok" THEN r.ret ELSE None,
                             len_before |-> len, err |-> FALSE, error |-> "none"]
                       ELSE last

Next == Insert \/ Remove

\* the outcomes of a read of freed memory, where a resident node has a link to
\* a freed cell
UbOutcomes ==
    IF \E a \in DOMAIN heap : \E l \in LinksOf(heap[a]) : l # NULL /\ l \notin DOMAIN heap
    THEN {"abort", "stale"}
    ELSE {"stale"}

\* the call record of the persistence driver
Call(op, key, value, ret, r) ==
    [op |-> op, key |-> key, value |-> value, ret |-> ret, len_before |-> len,
     err |-> r.err, error |-> r.error]

\* tree.get_key_value(&key) of the disk backend, called while some cell is
\* reference-only
Get ==
    \E key \in CallKeys :
        LET r == get_key_value_access(Tree, key)
        IN  /\ MayCall
            /\ ~Resident
            /\ Count
            /\ Store(Renumber(r.t))
            /\ last' = Call("get", key, NULL, r.ret, r)
            /\ UNCHANGED <<variant, driver, order, recording, reference>>

\* let mut guard = tree.get_mut(&key); *guard = value; drop(guard)
GuardWrite ==
    \E key \in 1..MaxGuardKey :
        LET value == IF reference[key] = key THEN key + MaxKey ELSE key
            r == write_through_guard(Tree, key, value)
        IN  /\ MayCall
            /\ Count
            /\ Store(Renumber(r.t))
            /\ reference' = IF r.ret.some
                             THEN [reference EXCEPT ![key] = value]
                             ELSE reference
            /\ last' = Call("get_mut", key, value,
                            IF r.t.status = "ok" THEN r.ret ELSE None, r)
            /\ UNCHANGED <<variant, driver, order, recording>>

\* tree.persist()
Persist ==
    \E ub \in UbOutcomes :
        LET r == persist(Tree, ub)
        IN  /\ MayCall
            /\ Count
            /\ Store(Renumber(r.t))
            /\ last' = Call("persist", NULL, NULL, None, r)
            /\ UNCHANGED <<variant, driver, order, recording, reference>>

\* tree.persist_key(&key)
PersistKey ==
    \E key \in CallKeys, ub \in UbOutcomes :
        LET r == persist_key(Tree, key, ub)
        IN  /\ MayCall
            /\ Count
            /\ Store(Renumber(r.t))
            /\ last' = Call("persist_key", key, NULL, None, r)
            /\ UNCHANGED <<variant, driver, order, recording, reference>>

\* drop(tree); BPTree::load(path): the driver goes on with the loaded tree,
\* or has no tree when load returned Err
Load ==
    LET r == load(disk)
    IN  /\ MayCall
        /\ Count
        /\ Store(Renumber([r.t EXCEPT !.status = IF r.err THEN "no tree" ELSE "ok"]))
        /\ order' = r.order
        /\ last' = Call("load", NULL, NULL, None, r)
        /\ UNCHANGED <<variant, driver, recording, reference>>

\* a node file whose bytes do not decode
GarbageFile(uuid) == [Unloaded(uuid) EXCEPT !.kind = "garbage"]

\* the directory after one of its files has been lost or overwritten with
\* bytes that do not decode
Damaged(d, kind, name, how) ==
    IF kind = "metadata"
    THEN [d EXCEPT ![name] = IF how = "lost" THEN NoFile ELSE Garbage]
    ELSE IF how = "lost"
         THEN [d EXCEPT !.nodes = [u \in DOMAIN d.nodes \ {name} |-> d.nodes[u]]]
         ELSE [d EXCEPT !.nodes[name] = GarbageFile(name)]

\* drop(tree); one file of the directory is damaged; BPTree::load(path)
LoadDamaged ==
    \E how \in {"lost", "garbled"} :
        \E kind \in {"metadata", "node"} :
            \E name \in IF kind = "metadata" THEN {"root", "order", "len"} ELSE DOMAIN disk.nodes :
                LET r == load(Damaged(disk, kind, name, how))
                IN  /\ MayCall
                    /\ disk.dir
                    /\ kind = "metadata" => disk[name] # NoFile
                    /\ Count
                    /\ Store(Renumber([r.t EXCEPT !.status = IF r.err THEN "no tree" ELSE "ok"]))
                    /\ order' = r.order
                    /\ last' = Call("load", NULL, NULL, None, r)
                    /\ UNCHANGED <<variant, driver, recording, reference>>

NextPersist == Insert \/ Remove \/ Get \/ GuardWrite \/ Persist \/ PersistKey \/ Load

NextFaults == NextPersist \/ LoadDamaged

SpecMem == InitMem /\ [][Next]_vars

SpecMemCalls == InitMemCalls /\ [][Next]_vars

SpecDisk == InitDisk /\ [][Next]_vars

SpecDiskCalls == InitDiskCalls /\ [][Next]_vars

SpecDiskMod == InitDiskMod /\ [][Next]_vars

\* BPTree::with_order(path, order) of src/src/disk with the guard of get.rs
InitPersist ==
    /\ variant = "disk"
    /\ recording = TRUE
    /\ driver = Driver(MaxPersistKey, MaxPersistCalls)
    /\ InitTree
    /\ order = DEFAULT_ORDER

\* BPTree::with_order(path, order) of src/src/disk with the guard of guard.rs
InitPersistGuard ==
    /\ variant = "diskguard"
    /\ recording = TRUE
    /\ driver = Driver(MaxPersistKey, MaxPersistCalls)
    /\ InitTree
    /\ order = DEFAULT_ORDER

SpecPersist == InitPersist /\ [][NextPersist]_vars

SpecPersistGuard == InitPersistGuard /\ [][NextPersist]_vars

\* either backend, built with any order
SpecAnyOrder == InitAnyOrder /\ [][Next]_vars

\* the tree of src/src/lib.rs
SpecLib == InitLib /\ [][Next]_vars

\* the disk backend over a directory whose files may be damaged while the tree
\* is dropped
SpecFaults == InitPersist /\ [][NextFaults]_vars

\* either backend
SpecMemOrDisk == (InitMem \/ InitDisk) /\ [][Next]_vars

-----------------------------------------------------------------------------
(* The vocabulary of the properties. *)

Range(s) == {s[i] : i \in 1..Len(s)}

StrictlyAscending(s) == \A i \in 1..(Len(s) - 1) : s[i] < s[i + 1]

\* the nodes reachable from the root through children links
Reachable == Range(Preorder(heap, root))

NonRoot == Reachable \ {root}

\* the leaves below node a, left to right through children links
RECURSIVE Leaves(_, _)
RECURSIVE LeavesAll(_, _)
Leaves(h, a) ==
    IF a \notin DOMAIN h
    THEN <<>>
    ELSE IF h[a].kind = "leaf" THEN <<a>> ELSE LeavesAll(h, h[a].children)

LeavesAll(h, s) ==
    IF s = <<>> THEN <<>> ELSE Leaves(h, Head(s)) \o LeavesAll(h, Tail(s))

\* the keys, and the (key, value) entries, of a sequence of leaves
RECURSIVE KeysOf(_, _)
KeysOf(h, leaves) ==
    IF leaves = <<>>
    THEN <<>>
    ELSE h[Head(leaves)].keys \o KeysOf(h, Tail(leaves))

RECURSIVE EntriesOf(_, _)
EntriesOf(h, leaves) ==
    IF leaves = <<>>
    THEN <<>>
    ELSE LET node == h[Head(leaves)]
         IN  [i \in 1..Len(node.keys) |-> <<node.keys[i], node.values[i]>>]
                 \o EntriesOf(h, Tail(leaves))

InOrderLeaves == Leaves(heap, root)

SubtreeKeys(a) == Range(KeysOf(heap, Leaves(heap, a)))

\* the nodes met by following next_leaf from a, at most `fuel` of them
RECURSIVE Chain(_, _, _)
Chain(h, a, fuel) ==
    IF a = NULL \/ a \notin DOMAIN h \/ fuel = 0
    THEN <<>>
    ELSE <<a>> \o Chain(h, h[a].next_leaf, fuel - 1)

\* the number of levels below and including node a
RECURSIVE Height(_, _)
Height(h, a) ==
    IF a \notin DOMAIN h
    THEN 0
    ELSE IF h[a].kind = "leaf" \/ h[a].children = <<>>
         THEN 1
         ELSE 1 + Height(h, At(h[a].children, 0))

\* the entries of the reference map, ascending by key
ReferenceEntries ==
    LET ks == Ascending({k \in Keys : reference[k] # NULL})
    IN  [i \in 1..Len(ks) |-> <<ks[i], reference[ks[i]]>>]

-----------------------------------------------------------------------------
(* The properties. *)

\* C1: after any sequence of insert and remove calls that returned, on
\* either backend, get(k) and contains_key(k) return for every key k what
\* the reference map driven by the same calls returns
C1_GetMatchesReference ==
    status = "ok" =>
        \A k \in Keys :
            /\ get(Tree, k) = reference[k]
            /\ contains_key(Tree, k) = (reference[k] # NULL)

\* a separator of the root is stored, and a key removed earlier is looked up
C1_Witness ==
    /\ status = "ok"
    /\ root # NULL
    /\ heap[root].kind = "internal"
    /\ \E k \in Range(heap[root].keys) : reference[k] # NULL
    /\ \E k \in Keys : reference[k] = NULL /\ k < At(heap[root].keys, 0)

\* C2: insert(k, v) returns the previous value and leaves len unchanged
\* when k is present, returns None and adds 1 to len when k is not present;
\* afterwards get(k) is v and every other key has the value it had
C2_InsertContract ==
    [][last'.op = "insert" =>
        LET k == last'.key
            v == last'.value
        IN  /\ status' = "ok"
            /\ IF contains_key(Tree, k)
               THEN last'.ret = Some(k, get(Tree, k)) /\ len' = len
               ELSE last'.ret = None /\ len' = len + 1
            /\ get(Tree', k) = v
            /\ \A j \in Keys \ {k} : get(Tree', j) = get(Tree, j)]_vars

\* an insert has replaced the value of a present key in a tree with
\* several leaves, and an insert has split a leaf
C2_Witness ==
    /\ last.op = "insert"
    /\ last.ret.some
    /\ last.ret.value # last.value
    /\ Len(InOrderLeaves) >= 3

\* C3: remove_entry(k) of a present key returns the stored entry, takes 1
\* from len, leaves get(k) absent and every other key with its value;
\* remove_entry(k) of a key that is not present returns None and changes
\* neither len nor any node
C3_RemoveContract ==
    [][last'.op = "remove" =>
        LET k == last'.key
        IN  /\ status' = "ok"
            /\ IF contains_key(Tree, k)
               THEN /\ last'.ret = Some(k, get(Tree, k))
                    /\ len' = len - 1
                    /\ get(Tree', k) = NULL
                    /\ \A j \in Keys \ {k} : get(Tree', j) = get(Tree, j)
               ELSE /\ last'.ret = None
                    /\ len' = len
                    /\ heap' = heap
                    /\ root' = root]_vars

\* a remove has returned an entry and left fewer leaves than keys need
C3_Witness ==
    /\ last.op = "remove"
    /\ last.ret.some
    /\ len = last.len_before - 1
    /\ Len(InOrderLeaves) >= 2

\* C4: iter() yields exactly len entries, in strictly ascending key order,
\* and they are the entries of the reference map; on an empty tree it
\* yields nothing
C4_IterYieldsReference ==
    LET it == iter(Tree)
    IN  /\ ~it.aborted
        /\ Len(it.items) = len
        /\ StrictlyAscending([i \in 1..Len(it.items) |-> it.items[i][1]])
        /\ it.items = ReferenceEntries
        /\ (len = 0 => it.items = <<>>)

\* a tree of three levels from which a key has been removed is iterated
C4_Witness ==
    /\ Height(heap, root) = 3
    /\ \E k \in Keys : reference[k] = NULL
    /\ Len(iter(Tree).items) >= 9

\* C5: every non-root leaf holds between ceil(m/2) and m keys, every
\* non-root internal node between floor(m/2) and m keys, and every internal
\* node has one child more than keys
C5_SizeBounds ==
    /\ \A a \in NonRoot :
          IF heap[a].kind = "leaf"
          THEN DivCeil2(order) <= Len(heap[a].keys) /\ Len(heap[a].keys) <= order
          ELSE order \div 2 <= Len(heap[a].keys) /\ Len(heap[a].keys) <= order
    /\ \A a \in Reachable :
          heap[a].kind = "internal" => Len(heap[a].children) = Len(heap[a].keys) + 1

\* a non-root internal node at its minimum beside a leaf at its maximum
C5_Witness ==
    /\ \E a \in NonRoot :
          heap[a].kind = "internal" /\ Len(heap[a].keys) = order \div 2
    /\ \E a \in NonRoot :
          heap[a].kind = "leaf" /\ Len(heap[a].keys) = order
    /\ \E a \in NonRoot :
          heap[a].kind = "leaf" /\ Len(heap[a].keys) = DivCeil2(order)

\* C6: for every internal node and separator index i, every key in the
\* subtree of child i is less than separator i, and every key in the
\* subtree of child i + 1 is greater than or equal to it
C6_SeparatorConsistency ==
    \A a \in Reachable :
        heap[a].kind = "internal" =>
            \A i \in 0..(Len(heap[a].keys) - 1) :
                /\ i + 1 < Len(heap[a].children)
                /\ \A k \in SubtreeKeys(At(heap[a].children, i)) :
                      k < At(heap[a].keys, i)
                /\ \A k \in SubtreeKeys(At(heap[a].children, i + 1)) :
                      k >= At(heap[a].keys, i)

\* a tree of three levels where a separator of the root is no stored key
C6_Witness ==
    /\ Height(heap, root) = 3
    /\ \E k \in Range(heap[root].keys) : reference[k] = NULL

\* C7: the parent link of every non-root node designates the node that
\* lists it among its children
C7_ParentLinks ==
    status = "ok" =>
        \A a \in NonRoot :
            /\ heap[a].parent \in DOMAIN heap
            /\ heap[heap[a].parent].kind = "internal"
            /\ a \in Range(heap[heap[a].parent].children)

\* the root leaf has been split
C7_Witness ==
    /\ status = "ok"
    /\ Height(heap, root) = 2
    /\ Len(heap[root].children) = 2

\* C8: following next_leaf from the leftmost leaf visits every leaf once,
\* left to right, ends at a leaf without next_leaf, and the keys met are
\* strictly ascending and are the in-order keys
C8_LeafChain ==
    root # NULL =>
        LET leaves == InOrderLeaves
            chain == Chain(heap, leftmost_leaf(heap, root), Len(leaves) + 1)
        IN  /\ chain = leaves
            /\ heap[chain[Len(chain)]].next_leaf = NULL
            /\ StrictlyAscending(KeysOf(heap, chain))
            /\ KeysOf(heap, chain) = KeysOf(heap, leaves)

\* the chain runs under two internal nodes, after a remove
C8_Witness ==
    /\ Height(heap, root) = 3
    /\ Len(InOrderLeaves) >= 4
    /\ len < Cardinality(Keys)

C10_KeysAscending ==
    \A a \in Reachable :
        /\ StrictlyAscending(heap[a].keys)
        /\ (heap[a].kind = "leaf" => Len(heap[a].values) = Len(heap[a].keys))

\* an internal node with two separators and a leaf with three keys, after
\* a remove
C10_Witness ==
    /\ \E a \in Reachable : heap[a].kind = "internal" /\ Len(heap[a].keys) >= 2
    /\ \E a \in Reachable : heap[a].kind = "leaf" /\ Len(heap[a].keys) >= 3
    /\ \E k \in Keys : reference[k] = NULL /\ k < At(heap[root].keys, 0)

\* C11: the root is absent exactly when len = 0; a leaf root is never
\* empty; an internal root has at least one key and two children; and when
\* exactly one entry remains the tree is a single-leaf root holding it
C11_RootShape ==
    /\ (root = NULL <=> len = 0)
    /\ root # NULL =>
          /\ root \in DOMAIN heap
          /\ heap[root].kind = "leaf" => heap[root].keys # <<>>
          /\ heap[root].kind = "internal" =>
                Len(heap[root].keys) >= 1 /\ Len(heap[root].children) >= 2
    /\ len = 1 =>
          /\ root \in DOMAIN heap
          /\ heap[root].kind = "leaf"
          /\ Len(heap[root].keys) = 1
          /\ \E k \in Keys : reference[k] # NULL /\ heap[root].keys = <<k>>

\* one entry remains, and removing it empties the tree
C11_Witness ==
    /\ len = 1
    /\ \E k \in Keys : k > 4 /\ get(Tree, k) # NULL /\ remove(Tree, k).t.root = NULL

\* C12: insert(k, v) followed at once by insert(k, v) leaves len as after
\* the first call and the second call returns v; remove(k) followed at
\* once by remove(k) returns None on the second call, which changes nothing
C12_Idempotence ==
    /\ \A in \in {<<k, k>> : k \in Keys} \cup {<<k, k + MaxKey>> : k \in Keys} :
          LET first == insert(Tree, in[1], in[2])
              second == insert(first.t, in[1], in[2])
          IN  /\ second.ret = in[2]
              /\ second.t.len = first.t.len
    /\ \A k \in Keys :
          LET first == remove(Tree, k)
              second == remove(first.t, k)
          IN  /\ second.ret = NULL
              /\ second.t = first.t

\* in a tree of three levels, a first insert replaces a value and a first
\* remove takes an entry and merges nodes
C12_Witness ==
    /\ Height(heap, root) = 3
    /\ \E k \in Keys :
          /\ get(Tree, k) = k
          /\ insert(Tree, k, k + MaxKey).ret = k
          /\ remove(Tree, k).ret = k
          /\ Height(remove(Tree, k).t.heap, remove(Tree, k).t.root) = 2

-----------------------------------------------------------------------------
(* The vocabulary of the persistence properties. *)

\* the last call was `op` and returned Ok
Returned(op) == last.op = op /\ ~last.err /\ status = "ok"

\* the cells reached from the root through child links
ReachableCells == {Preorder(heap, root)[i] : i \in 1..Len(Preorder(heap, root))}

\* the resident cells
ResidentCells == {a \in DOMAIN heap : heap[a].kind # "unloaded"}

\* the node in cell a as its file would hold it
ImageOf(h, a) ==
    [h[a] EXCEPT !.children = [i \in 1..Len(@) |-> serialize_link(h, @[i])],
                 !.parent = serialize_link(h, @),
                 !.next_leaf = serialize_link(h, @),
                 !.dirty = FALSE]

\* the metadata files in the directory
MetadataFiles(d) == {n \in {"root", "order", "len"} : d[n] # NoFile}

\* C13: after a successful persist(), dropping the tree and load() give a
\* tree with the same len and the same get(k) for every key k
C13_RoundTrip ==
    Returned("persist") =>
        LET loaded == load(disk)
        IN  /\ ~loaded.err
            /\ loaded.t.len = len
            /\ \A k \in CallKeys :
                  LET before == get_key_value_access(Tree, k)
                      after == get_key_value_access(loaded.t, k)
                  IN  ~after.err /\ after.ret = before.ret

\* persist() has returned Ok on a tree of two leaves whose directory loads
C13_Witness ==
    /\ Returned("persist")
    /\ root # NULL
    /\ heap[root].kind = "internal"
    /\ ~load(disk).err
    /\ \E k \in CallKeys : get_key_value_access(load(disk).t, k).ret.some

\* the cells on the descent from cell a to the leaf for `key`
RECURSIVE PathCells(_, _, _)
PathCells(h, a, key) ==
    IF a \notin DOMAIN h
    THEN {}
    ELSE IF h[a].kind = "internal"
         THEN {a} \cup PathCells(h, At(h[a].children, child_index(h[a].keys, key)), key)
         ELSE {a}

\* the last call was an insert, or a remove or a write through a guard that
\* found its key, and returned Ok
Mutated ==
    /\ status = "ok"
    /\ ~last.err
    /\ \/ last.op = "insert"
       \/ last.op \in {"remove", "get_mut"} /\ last.ret.some

\* in tree t every node on the path of `key` is resident and has its dirty
\* flag set
PathDirty(t, key) ==
    \A a \in PathCells(t.heap, t.root, key) :
        t.heap[a].kind # "unloaded" /\ t.heap[a].dirty

\* every node that is dirty in the present tree and still there in t is dirty
\* in t
StaysDirty(t) ==
    \A a \in DOMAIN heap \cap DOMAIN t.heap : heap[a].dirty => t.heap[a].dirty

\* C14: after a successful insert, remove or guard release every node on
\* the root-to-leaf path of the affected key has its dirty flag set, and a
\* node that is dirty stays dirty through every call other than persist()
\* and persist_key()
C14_PathDirty ==
    status = "ok" =>
        /\ Resident =>
              \A in \in InsertInputs :
                  LET r == insert(Tree, in[1], in[2])
                  IN  r.t.status = "ok" => PathDirty(r.t, in[1]) /\ StaysDirty(r.t)
        /\ Resident =>
              \A k \in CallKeys :
                  LET r == remove_entry(Tree, k)
                  IN  r.t.status = "ok" =>
                          /\ r.ret.some => PathDirty(r.t, k)
                          /\ StaysDirty(r.t)
        /\ \A k \in CallKeys :
              LET r == write_through_guard(Tree, k, k + MaxKey)
              IN  (r.t.status = "ok" /\ ~r.err) =>
                      /\ r.ret.some => PathDirty(r.t, k)
                      /\ StaysDirty(r.t)
        /\ \A k \in CallKeys : StaysDirty(get_key_value_access(Tree, k).t)

\* an insert has returned on a tree of two levels and the path of its key is
\* dirty
C14_Witness ==
    /\ Mutated
    /\ last.op = "insert"
    /\ root # NULL
    /\ heap[root].kind = "internal"
    /\ PathDirty(Tree, last.key)

\* the cells reached from the root of tree t through child links
ReachableIn(t) == {Preorder(t.heap, t.root)[i] : i \in 1..Len(Preorder(t.heap, t.root))}

\* in tree t the file of the node in cell a holds the node as it is
FileCurrent(t, a) ==
    /\ t.heap[a].uuid \in DOMAIN t.disk.nodes
    /\ t.disk.nodes[t.heap[a].uuid] = ImageOf(t.heap, a)

\* C15: after a successful persist() no resident node reachable from the
\* root is dirty, and every node of the tree that was dirty before the call
\* has its current content in its file
C15_PersistCleans ==
    status = "ok" =>
        \A ub \in UbOutcomes :
            LET r == persist(Tree, ub)
            IN  (~r.err /\ r.t.status = "ok") =>
                    /\ \A a \in ReachableIn(r.t) :
                          r.t.heap[a].kind # "unloaded" => ~r.t.heap[a].dirty
                    /\ \A a \in ReachableCells :
                          (heap[a].kind # "unloaded" /\ heap[a].dirty) => FileCurrent(r.t, a)

\* persist() has returned Ok on a tree of two levels: every node is resident,
\* clean and in its file
C15_Witness ==
    /\ Returned("persist")
    /\ root # NULL
    /\ heap[root].kind = "internal"
    /\ \A a \in ReachableCells :
          heap[a].kind # "unloaded" /\ ~heap[a].dirty /\ FileCurrent(Tree, a)

\* C16: after persist() the files in the directory are exactly root, order
\* and len plus one file per node reachable from the root, so that the file
\* of every node dropped by a merge, a root shrink or the removal of the last
\* entry is gone
C16_NoLeakedFiles ==
    Returned("persist") =>
        /\ MetadataFiles(disk) = {"root", "order", "len"}
        /\ DOMAIN disk.nodes = {heap[a].uuid : a \in ReachableCells}

\* persist() has returned Ok on a tree of two levels and the directory holds
\* the metadata and the files of its three nodes only
C16_Witness ==
    /\ Returned("persist")
    /\ root # NULL
    /\ heap[root].kind = "internal"
    /\ MetadataFiles(disk) = {"root", "order", "len"}
    /\ DOMAIN disk.nodes = {heap[a].uuid : a \in ReachableCells}

\* the node files of t1 and t2 are the same but for the file `uuid`
SameFilesBut(t1, t2, uuid) ==
    /\ DOMAIN t2.disk.nodes \ {uuid} = DOMAIN t1.disk.nodes \ {uuid}
    /\ \A u \in DOMAIN t1.disk.nodes \ {uuid} : t2.disk.nodes[u] = t1.disk.nodes[u]

\* C17: after persist(), get_mut(k), a write through the guard and its
\* release mark the owning leaf dirty; persist_key(k) then writes exactly
\* that leaf's file, plus the metadata files whose flag is set, and leaves
\* every other node file unchanged
C17_GuardThenPersistKey ==
    Returned("persist") =>
        \A k \in CallKeys : \A ub \in UbOutcomes :
            LET leaf == descend_access(Tree, root, k).cursor
                w == write_through_guard(Tree, k, k + MaxKey)
                p == persist_key(w.t, k, ub)
            IN  (root # NULL /\ w.ret.some /\ ~w.err /\ w.t.status = "ok") =>
                    /\ w.t.heap[leaf].dirty
                    /\ (~p.err /\ p.t.status = "ok") =>
                          /\ p.t.written.nodes = {w.t.heap[leaf].uuid}
                          /\ p.t.written.meta = {n \in {"root", "order", "len"} : w.t.flags[n]}
                          /\ SameFilesBut(w.t, p.t, w.t.heap[leaf].uuid)
                          /\ FileCurrent(p.t, leaf)

\* persist() has returned Ok on a tree of two levels, the next call has
\* written to key 1 through a guard, which left its leaf dirty, and
\* persist_key(1) writes the file of that leaf
C17_Witness ==
    /\ last.op = "get_mut"
    /\ last.ret.some
    /\ status = "ok"
    /\ root # NULL
    /\ heap[root].kind = "internal"
    /\ \E a \in ReachableCells :
          /\ heap[a].kind = "leaf"
          /\ heap[a].dirty
          /\ last.key \in Range(heap[a].keys)
          /\ heap[a].uuid \in persist_key(Tree, last.key, "stale").t.written.nodes

\* C18: a successful get(k) or contains_key(k) that faults in
\* reference-only nodes leaves each newly loaded node with its dirty flag
\* clear and changes no other node's dirty flag, no metadata dirty flag and
\* no file
C18_GetFrame ==
    status = "ok" =>
        \A k \in CallKeys :
            LET r == get_key_value_access(Tree, k)
            IN  (~r.err /\ r.t.status = "ok") =>
                    /\ \A a \in DOMAIN r.t.heap :
                          (a \notin ResidentCells /\ r.t.heap[a].kind # "unloaded") =>
                              ~r.t.heap[a].dirty
                    /\ \A a \in ResidentCells :
                          a \in DOMAIN r.t.heap /\ r.t.heap[a].dirty = heap[a].dirty
                    /\ r.t.flags = flags
                    /\ r.t.disk = disk
                    /\ r.t.written = NoWrites

\* a get on a loaded tree of two levels has returned the entry of its key:
\* the root and the leaf of the key are resident and clean, the other leaf is
\* still reference-only
C18_Witness ==
    /\ Returned("get")
    /\ last.ret.some
    /\ root # NULL
    /\ heap[root].kind = "internal"
    /\ \E a \in ReachableCells : heap[a].kind = "leaf" /\ last.key \in Range(heap[a].keys)
    /\ \E a \in ReachableCells : heap[a].kind = "unloaded"
    /\ \A a \in ReachableCells : ~heap[a].dirty

\* the content of metadata file n of tree t
MetadataOf(t, n) ==
    IF n = "root"
    THEN (IF t.root = NULL THEN NULL ELSE t.heap[t.root].uuid)
    ELSE IF n = "order" THEN order ELSE t.len

\* C19: persist() in any state, an empty tree with no root included,
\* creates the directory, writes every metadata file whose dirty flag is set
\* and clears that flag, so that after a successful persist() no metadata
\* dirty flag is set
C19_PersistMetadata ==
    status = "ok" =>
        \A ub \in UbOutcomes :
            LET r == persist(Tree, ub)
            IN  (~r.err /\ r.t.status = "ok") =>
                    /\ r.t.disk.dir
                    /\ \A n \in {"root", "order", "len"} :
                          flags[n] => /\ n \in r.t.written.meta
                                      /\ r.t.disk[n] = MetadataOf(r.t, n)
                    /\ r.t.flags = CleanFlags

\* persist() has returned Ok on a tree with a root: the directory exists, the
\* three metadata files hold the root, the order and len, and no flag is set
C19_Witness ==
    /\ Returned("persist")
    /\ root # NULL
    /\ disk.dir
    /\ flags = CleanFlags
    /\ \A n \in {"root", "order", "len"} : disk[n] = MetadataOf(Tree, n)

\* the resident cells of tree t
ResidentIn(t) == {a \in DOMAIN t.heap : t.heap[a].kind # "unloaded"}

\* C20: persist() writes only nodes that are resident and dirty and skips
\* the reference-only ones: it faults in no node, and the set of resident
\* cells is the same before and after the call
C20_PersistSkipsUnloaded ==
    status = "ok" =>
        \A ub \in UbOutcomes :
            LET r == persist(Tree, ub)
            IN  (~r.err /\ r.t.status = "ok") =>
                    /\ ResidentIn(r.t) = ResidentCells
                    /\ r.t.written.nodes \subseteq
                          {heap[a].uuid : a \in {b \in ResidentCells : heap[b].dirty}}

\* persist() has returned Ok on a loaded tree of two levels: a get had
\* faulted in the root, both leaves are resident now
C20_Witness ==
    /\ Returned("persist")
    /\ root # NULL
    /\ heap[root].kind = "internal"
    /\ disk.root = heap[root].uuid
    /\ \A a \in ReachableCells : heap[a].kind # "unloaded"
    /\ \E a \in DOMAIN heap : heap[a].kind = "unloaded"

\* the file of uuid u exists and decodes
Readable(d, u) == u \in DOMAIN d.nodes /\ d.nodes[u].kind # "garbage"

\* the cells that are resident now are resident in tree t, where they are
\* still allocated
KeepsResident(t) ==
    \A a \in ResidentCells : a \in DOMAIN t.heap => t.heap[a].kind # "unloaded"

\* the node in cell a of tree t is what file f decodes to: the same kind,
\* uuid, keys and values, and every link a cell holding the uuid of the file
Decoded(t, a, f) ==
    LET node == t.heap[a]
        uuid_of(l) == IF l = NULL THEN NULL ELSE t.heap[l].uuid
    IN  /\ node.kind = f.kind
        /\ node.uuid = f.uuid
        /\ node.keys = f.keys
        /\ node.values = f.values
        /\ Len(node.children) = Len(f.children)
        /\ \A i \in 1..Len(f.children) : uuid_of(node.children[i]) = f.children[i]
        /\ uuid_of(node.parent) = f.parent
        /\ uuid_of(node.next_leaf) = f.next_leaf

\* C21: access / access_mut make a reference-only cell whose file is
\* readable and decodable resident with the decoded node, hand back a
\* resident cell as it is without reading a file, and no operation turns a
\* resident cell into a reference-only one
C21_CellStates ==
    status = "ok" =>
        /\ \A a \in DOMAIN heap :
              LET r == access(Tree, a)
              IN  /\ (heap[a].kind = "unloaded" /\ Readable(disk, heap[a].uuid)) =>
                         /\ ~r.err
                         /\ Decoded(r.t, a, disk.nodes[heap[a].uuid])
                         /\ \A b \in DOMAIN heap \ {a} : r.t.heap[b] = heap[b]
                         /\ r.t.disk = disk
                  /\ heap[a].kind # "unloaded" =>
                         /\ ~r.err
                         /\ r.t = Tree
                         /\ access([Tree EXCEPT !.disk = EmptyDisk], a).t.heap = heap
        /\ \A k \in CallKeys : \A ub \in UbOutcomes :
              /\ KeepsResident(get_key_value_access(Tree, k).t)
              /\ KeepsResident(write_through_guard(Tree, k, k + MaxKey).t)
              /\ KeepsResident(persist_key(Tree, k, ub).t)
              /\ KeepsResident(persist(Tree, ub).t)
              /\ Resident => KeepsResident(insert(Tree, k, k).t)
              /\ Resident => KeepsResident(remove_entry(Tree, k).t)

\* a get on a loaded tree of two levels has made the root resident: a leaf
\* under it is still reference-only and its file is readable
C21_Witness ==
    /\ last.op = "get"
    /\ status = "ok"
    /\ root # NULL
    /\ heap[root].kind = "internal"
    /\ \E a \in ReachableCells :
          heap[a].kind = "unloaded" /\ Readable(disk, heap[a].uuid)

\* C24: persist_key(k) returns UnknownKey when the tree is empty and when
\* the leaf reached by descent does not hold k, returns Ok only when that
\* leaf holds k, and on Ok every node on the path from the root to that
\* leaf that was resident and dirty has been written
C24_PersistKeyContract ==
    status = "ok" =>
        \A k \in CallKeys : \A ub \in UbOutcomes :
            LET r == persist_key(Tree, k, ub)
                g == get_key_value_access(Tree, k)
            IN  r.t.status = "ok" =>
                    /\ (root = NULL \/ (~g.err /\ ~g.ret.some)) =>
                          r.err /\ r.error = "UnknownKey"
                    /\ ~r.err =>
                          /\ ~g.err /\ g.ret.some
                          /\ \A a \in PathCells(r.t.heap, r.t.root, k) \cap DOMAIN heap :
                                (heap[a].kind # "unloaded" /\ heap[a].dirty) =>
                                    /\ heap[a].uuid \in r.t.written.nodes
                                    /\ ~r.t.heap[a].dirty
                                    /\ FileCurrent(r.t, a)

\* persist_key(k) has returned Ok on a tree of two levels: the nodes on the
\* path of k are resident, clean and in their files
C24_Witness ==
    /\ Returned("persist_key")
    /\ root # NULL
    /\ heap[root].kind = "internal"
    /\ \A a \in PathCells(heap, root, last.key) :
          heap[a].kind # "unloaded" /\ ~heap[a].dirty /\ FileCurrent(Tree, a)

\* the three metadata files of directory d are there and decode
MetadataReadable(d) == \A n \in {"root", "order", "len"} : d[n] \notin {NoFile, Garbage}

\* C25: load(path) fails with BadBPTree when a metadata file is missing and
\* with Serde when one does not decode; on success it reads no node file:
\* the only cell is the root, reference-only, with the uuid of the root
\* file, no flag is set, len and order are those of the files, and the
\* result is the same whatever the node files hold; the root node is read
\* from its file by the first access
C25_LoadContract ==
    LET r == load(disk)
        missing == \E n \in {"root", "order", "len"} : disk[n] = NoFile
        garbled == \E n \in {"root", "order", "len"} : disk[n] = Garbage
    IN  /\ (missing /\ ~garbled) => r.err /\ r.error = "BadBPTree"
        /\ (garbled /\ ~missing) => r.err /\ r.error = "Serde"
        /\ MetadataReadable(disk) =>
              /\ ~r.err
              /\ r.t.len = disk.len
              /\ r.order = disk.order
              /\ r.t.flags = CleanFlags
              /\ r.t.disk = disk
              /\ disk.root # NULL =>
                    /\ DOMAIN r.t.heap = {r.t.root}
                    /\ r.t.heap[r.t.root] = Unloaded(disk.root)
                    /\ Readable(disk, disk.root) =>
                          Decoded(access(r.t, r.t.root).t, r.t.root, disk.nodes[disk.root])
              /\ \A n \in {"root", "order", "len"} :
                    /\ load(Damaged(disk, "metadata", n, "lost")).err
                    /\ load(Damaged(disk, "metadata", n, "lost")).error = "BadBPTree"
                    /\ load(Damaged(disk, "metadata", n, "garbled")).err
                    /\ load(Damaged(disk, "metadata", n, "garbled")).error = "Serde"
              /\ \A u \in DOMAIN disk.nodes : \A how \in {"lost", "garbled"} :
                    LET d == Damaged(disk, "node", u, how)
                    IN  load(d) = [r EXCEPT !.t.disk = d]

\* load() has returned Ok over a directory one of whose node files is lost
\* or does not decode: the tree is one reference-only cell
C25_Witness ==
    /\ Returned("load")
    /\ root # NULL
    /\ DOMAIN heap = {root}
    /\ heap[root].kind = "unloaded"
    /\ flags = CleanFlags
    /\ \E u \in UuidsOf(heap, disk) : ~Readable(disk, u)

\* load() has returned BadBPTree, and load() has returned Serde
LoadBadTreeSeen == last.op = "load" /\ last.err /\ last.error = "BadBPTree"

LoadSerdeSeen == last.op = "load" /\ last.err /\ last.error = "Serde"

\* C27: every tree that operations run on has an order of at least 3
C27_OrderAtLeastThree == order >= 3

\* a tree built with an order below 3 has grown to two levels
C27_Witness ==
    /\ order < 3
    /\ status = "ok"
    /\ root # NULL
    /\ heap[root].kind = "internal"

\* in tree t the separators of every internal node reachable from the root
\* separate the keys below its children
SeparatorsIn(t) ==
    \A a \in ReachableIn(t) :
        t.heap[a].kind = "internal" =>
            \A i \in 0..(Len(t.heap[a].keys) - 1) :
                /\ i + 1 < Len(t.heap[a].children)
                /\ \A k \in Range(KeysOf(t.heap, Leaves(t.heap, At(t.heap[a].children, i)))) :
                      k < At(t.heap[a].keys, i)
                /\ \A k \in Range(KeysOf(t.heap, Leaves(t.heap, At(t.heap[a].children, i + 1)))) :
                      k >= At(t.heap[a].keys, i)

\* remove_entry(key) on tree t takes `key` from a non-root leaf, leaves it
\* underfull and merges its right sibling into it: no left sibling, and a right
\* sibling without extra keys
MergesRight(t, key) ==
    /\ t.root # NULL
    /\ LET d == descend(t.heap, t.root, 0, key)
           node == t.heap[d.cursor]
           p == node.parent
       IN  /\ binary_search(node.keys, key).found
           /\ d.cursor # t.root
           /\ Len(node.keys) - 1 < DivCeil2(order)
           /\ p \in DOMAIN t.heap
           /\ t.heap[p].kind = "internal"
           /\ d.cursor_index = 0
           /\ Len(t.heap[p].children) > 1
           /\ LET right == At(t.heap[p].children, 1)
              IN  right \in DOMAIN t.heap /\ t.heap[right].kind = "leaf"
                     /\ ~has_extra_keys(t.heap[right])

\* C28: when an underfull leaf at child index i merges its right sibling
\* into itself, the call returns without an index out of range, also under
\* a parent of two children; the parent loses keys[i] and children[i + 1],
\* the sibling is freed, and the separators of the tree still separate
C28_MergeRightSeparator ==
    (status = "ok" /\ C6_SeparatorConsistency) =>
        \A k \in CallKeys :
            MergesRight(Tree, k) =>
                LET d == descend(heap, root, 0, k)
                    p == heap[d.cursor].parent
                    i == d.cursor_index
                    r == remove_entry(Tree, k)
                    stays == IF p = root
                             THEN Len(heap[p].keys) > 1
                             ELSE Len(heap[p].keys) - 1 >= order \div 2
                IN  /\ r.t.status = "ok"
                    /\ r.ret.some
                    /\ SeparatorsIn(r.t)
                    /\ At(heap[p].children, i + 1) \notin DOMAIN r.t.heap
                    /\ stays =>
                          /\ r.t.heap[p].keys = RemoveAt(heap[p].keys, i)
                          /\ r.t.heap[p].children = RemoveAt(heap[p].children, i + 1)

\* a remove has merged the right sibling into the first leaf of a parent of
\* two children and was aborted by the index of the separator
C28_Witness ==
    /\ last.op = "remove"
    /\ status = "panic"
    /\ root # NULL
    /\ heap[root].kind = "internal"
    /\ Len(heap[root].children) = 2
    /\ heap[At(heap[root].children, 0)].kind = "leaf"
    /\ last.key \notin Range(heap[At(heap[root].children, 0)].keys)
    /\ heap[At(heap[root].children, 1)].keys = <<>>

\* a remove is about to merge a right sibling under a parent of more than
\* two children
MergeRightUnderWideParent ==
    /\ status = "ok"
    /\ C6_SeparatorConsistency
    /\ \E k \in CallKeys :
          /\ MergesRight(Tree, k)
          /\ Len(heap[heap[descend(heap, root, 0, k).cursor].parent].children) > 2

\* the child an internal node with separators `keys` has for a probe: the
\* number of separators that are at most the probe
ChildFor(keys, key) == Cardinality({i \in 1..Len(keys) : keys[i] <= key})

\* the leaf of tree t in which `key` belongs, from cell a downwards
RECURSIVE LeafFor(_, _, _)
LeafFor(h, a, key) ==
    IF a \in DOMAIN h /\ h[a].kind = "internal"
    THEN LeafFor(h, At(h[a].children, ChildFor(h[a].keys, key)), key)
    ELSE a

\* the cells from cell a down to LeafFor(h, a, key)
RECURSIVE PathFor(_, _, _)
PathFor(h, a, key) ==
    IF a \in DOMAIN h /\ h[a].kind = "internal"
    THEN {a} \cup PathFor(h, At(h[a].children, ChildFor(h[a].keys, key)), key)
    ELSE {a}

\* C30: get, get_mut, insert, remove and persist_key reach for every key
\* the same leaf, the one found by going at each internal node to child
\* i + 1 on a probe equal to separator i and to child i on a probe that
\* falls at position i; a key equal to a separator is looked for in the
\* right subtree
C30_SameDescent ==
    (status = "ok" /\ root # NULL) =>
        \A k \in CallKeys : \A ub \in UbOutcomes :
            LET g == get_key_value_access(Tree, k)
                d == descend_access(Tree, root, k)
                w == write_through_guard(Tree, k, k + MaxKey)
                p == persist_key(Tree, k, ub)
                leaf == LeafFor(d.t.heap, root, k)
            IN  /\ ~d.err =>
                      /\ d.cursor = leaf
                      /\ g.ret.some <=> k \in Range(d.t.heap[leaf].keys)
                      /\ w.ret.some <=> k \in Range(d.t.heap[leaf].keys)
                      /\ w.ret.some => k + MaxKey \in Range(w.t.heap[leaf].values)
                      /\ p.t.status = "ok" =>
                            (p.error = "UnknownKey" <=> k \notin Range(d.t.heap[leaf].keys))
                      /\ \A a \in PathFor(d.t.heap, root, k) :
                            \A i \in 1..Len(d.t.heap[a].keys) :
                                (d.t.heap[a].kind = "internal" /\ d.t.heap[a].keys[i] = k) =>
                                    d.t.heap[a].children[i + 1] \in PathFor(d.t.heap, root, k)
                /\ Resident =>
                      LET in == insert(Tree, k, k)
                          rm == remove_entry(Tree, k)
                      IN  /\ descend(heap, root, 0, k).cursor = leaf
                          /\ get_key_value(Tree, k).some <=> k \in Range(heap[leaf].keys)
                          /\ rm.ret.some <=> k \in Range(heap[leaf].keys)
                          /\ in.t.status = "ok" =>
                                k \in Range(in.t.heap[LeafFor(in.t.heap, in.t.root, k)].keys)
                          /\ (in.t.status = "ok" /\ in.ret = NULL /\ in.t.heap[leaf].keys # heap[leaf].keys) =>
                                k \notin Range(heap[leaf].keys)

\* a call has descended for a key that is a separator of the root: the key
\* is stored in the leaf to the right of that separator
C30_Witness ==
    /\ status = "ok"
    /\ last.op \in {"get", "get_mut", "insert", "remove", "persist_key"}
    /\ root # NULL
    /\ heap[root].kind = "internal"
    /\ \E i \in 1..Len(heap[root].keys) :
          /\ heap[root].keys[i] = last.key
          /\ heap[heap[root].children[i + 1]].kind = "leaf"
          /\ last.key \in Range(heap[heap[root].children[i + 1]].keys)

\* between trees t1 and t2 the internal node c has taken over the last
\* child of its left sibling
BorrowedLeft(t1, t2, c) ==
    LET p == t1.heap[c].parent
        i == Position(t1.heap[p].children, c)
        l == At(t1.heap[p].children, i - 1)
    IN  /\ t1.heap[c].kind = "internal"
        /\ p \in DOMAIN t1.heap \cap DOMAIN t2.heap
        /\ i > 0
        /\ l \in DOMAIN t1.heap \cap DOMAIN t2.heap
        /\ t1.heap[l].kind = "internal"
        /\ t1.heap[l].children # <<>>
        /\ t2.heap[c].children # <<>>
        /\ At(t2.heap[c].children, 0) = At(t1.heap[l].children, Len(t1.heap[l].children) - 1)

\* between trees t1 and t2 the internal node c has taken over the first
\* child of its right sibling
BorrowedRight(t1, t2, c) ==
    LET p == t1.heap[c].parent
        i == Position(t1.heap[p].children, c)
        r == At(t1.heap[p].children, i + 1)
    IN  /\ t1.heap[c].kind = "internal"
        /\ p \in DOMAIN t1.heap \cap DOMAIN t2.heap
        /\ i >= 0
        /\ i + 1 < Len(t1.heap[p].children)
        /\ r \in DOMAIN t1.heap \cap DOMAIN t2.heap
        /\ t1.heap[r].kind = "internal"
        /\ t1.heap[r].children # <<>>
        /\ t2.heap[c].children # <<>>
        /\ At(t2.heap[c].children, Len(t2.heap[c].children) - 1) = At(t1.heap[r].children, 0)

\* C29: when a remove makes an internal node borrow from a sibling, the
\* separator of the parent between the two becomes the borrower's first
\* (from the left) or last (from the right) key, the sibling's last (left)
\* or first (right) key replaces it in the parent, the sibling loses that
\* key and the child next to it, and the child's parent link is the
\* borrowing node
C29_InternalBorrow ==
    (status = "ok" /\ root # NULL) =>
        \A k \in CallKeys :
            LET t2 == remove_entry(Tree, k).t
            IN  t2.status = "ok" =>
                    \A c \in (DOMAIN heap \cap DOMAIN t2.heap) \ {root} :
                        LET p == heap[c].parent
                            i == Position(heap[p].children, c)
                            l == At(heap[p].children, i - 1)
                            r == At(heap[p].children, i + 1)
                        IN  /\ BorrowedLeft(Tree, t2, c) =>
                                  /\ At(t2.heap[c].keys, 0) = At(heap[p].keys, i - 1)
                                  /\ At(t2.heap[p].keys, i - 1)
                                        = At(heap[l].keys, Len(heap[l].keys) - 1)
                                  /\ t2.heap[l].keys = Prefix(heap[l].keys, Len(heap[l].keys) - 1)
                                  /\ t2.heap[l].children
                                        = Prefix(heap[l].children, Len(heap[l].children) - 1)
                                  /\ t2.heap[At(t2.heap[c].children, 0)].parent = c
                            /\ BorrowedRight(Tree, t2, c) =>
                                  /\ At(t2.heap[c].keys, Len(t2.heap[c].keys) - 1)
                                        = At(heap[p].keys, i)
                                  /\ At(t2.heap[p].keys, i) = At(heap[r].keys, 0)
                                  /\ t2.heap[r].keys = RemoveAt(heap[r].keys, 0)
                                  /\ t2.heap[r].children = RemoveAt(heap[r].children, 0)
                                  /\ t2.heap[At(t2.heap[c].children,
                                                Len(t2.heap[c].children) - 1)].parent = c

\* an internal node has borrowed a child and the child's parent link is the
\* sibling it came from: the first child of a node names the node's left
\* neighbour as its parent, or the last child the right neighbour
C29_Witness ==
    /\ status = "ok"
    /\ root # NULL
    /\ heap[root].kind = "internal"
    /\ \E i \in 1..Len(heap[root].children) :
          LET c == heap[root].children[i]
          IN  /\ heap[c].kind = "internal"
              /\ \/ /\ i > 1
                    /\ heap[heap[c].children[1]].parent = heap[root].children[i - 1]
                 \/ /\ i < Len(heap[root].children)
                    /\ heap[heap[c].children[Len(heap[c].children)]].parent
                          = heap[root].children[i + 1]

\* a remove is about to make an internal node borrow from its left sibling,
\* and one from its right sibling
BorrowLeftAhead ==
    /\ status = "ok"
    /\ root # NULL
    /\ \E k \in CallKeys : \E c \in DOMAIN heap \ {root} :
          c \in DOMAIN remove_entry(Tree, k).t.heap
             /\ BorrowedLeft(Tree, remove_entry(Tree, k).t, c)

BorrowRightAhead ==
    /\ status = "ok"
    /\ root # NULL
    /\ \E k \in CallKeys : \E c \in DOMAIN heap \ {root} :
          c \in DOMAIN remove_entry(Tree, k).t.heap
             /\ BorrowedRight(Tree, remove_entry(Tree, k).t, c)

\* the error a read of the file of uuid u gives, "none" where it can be read
ReadError(d, u) ==
    IF u \notin DOMAIN d.nodes THEN "IO"
    ELSE IF d.nodes[u].kind = "garbage" THEN "Serde"
    ELSE "none"

\* the error of the first file that cannot be read on the way from the file
\* of uuid u to the leaf of `key`
RECURSIVE FileErrorFor(_, _, _)
FileErrorFor(d, u, key) ==
    IF ReadError(d, u) # "none"
    THEN ReadError(d, u)
    ELSE IF d.nodes[u].kind = "internal"
    THEN FileErrorFor(d, At(d.nodes[u].children, ChildFor(d.nodes[u].keys, key)), key)
    ELSE "none"

\* the same from cell a of tree t, through the resident nodes first
RECURSIVE ErrorFor(_, _, _)
ErrorFor(t, a, key) ==
    IF t.heap[a].kind = "unloaded"
    THEN FileErrorFor(t.disk, t.heap[a].uuid, key)
    ELSE IF t.heap[a].kind = "internal"
    THEN ErrorFor(t, At(t.heap[a].children, ChildFor(t.heap[a].keys, key)), key)
    ELSE "none"

\* the errors of the files under the file of uuid u that cannot be read
RECURSIVE FileErrorsUnder(_, _)
FileErrorsUnder(d, u) ==
    IF ReadError(d, u) # "none"
    THEN {ReadError(d, u)}
    ELSE UNION {FileErrorsUnder(d, d.nodes[u].children[i]) :
                   i \in 1..Len(d.nodes[u].children)}

\* the same under cell a of tree t
RECURSIVE ErrorsUnder(_, _)
ErrorsUnder(t, a) ==
    IF t.heap[a].kind = "unloaded"
    THEN FileErrorsUnder(t.disk, t.heap[a].uuid)
    ELSE UNION {ErrorsUnder(t, t.heap[a].children[i]) :
                   i \in 1..Len(t.heap[a].children)}

\* tree t has a reference-only cell whose file gives `error` when read
StillUnread(t, error) ==
    \E a \in DOMAIN t.heap :
        t.heap[a].kind = "unloaded" /\ ReadError(t.disk, t.heap[a].uuid) = error

\* operation result r is `error` and no value, and has left the cell behind
\* reference-only
ReturnsError(r, error) ==
    r.t.status = "ok" =>
        /\ r.err
        /\ r.error = error
        /\ StillUnread(r.t, error)

\* C22: access / access_mut on a reference-only cell return IO when the file
\* of the node is missing and Serde when it does not decode, and leave the
\* cell reference-only; get, get_mut, insert, remove, persist, persist_key
\* and iteration return that error and no value
C22_AccessErrors ==
    (status = "ok" /\ root # NULL) =>
        /\ \A a \in DOMAIN heap :
              (heap[a].kind = "unloaded" /\ ~Readable(disk, heap[a].uuid)) =>
                  LET r == access(Tree, a)
                  IN  /\ r.err
                      /\ r.error = IF heap[a].uuid \in DOMAIN disk.nodes THEN "Serde" ELSE "IO"
                      /\ r.t = Tree
        /\ \A k \in CallKeys : \A ub \in UbOutcomes :
              LET error == ErrorFor(Tree, root, k)
                  g == get_key_value_access(Tree, k)
                  w == write_through_guard(Tree, k, k + MaxKey)
                  i == insert_access(Tree, k, k)
                  e == remove_entry_access(Tree, k)
                  p == persist_key(Tree, k, ub)
              IN  error # "none" =>
                      /\ ReturnsError(g, error) /\ g.ret = None
                      /\ ReturnsError(w, error) /\ w.ret = None
                      /\ ReturnsError(i, error) /\ i.ret = NULL
                      /\ ReturnsError(e, error) /\ e.ret = None
                      /\ ReturnsError(p, error)
        /\ \A ub \in UbOutcomes :
              LET p == persist(Tree, ub)
              IN  p.t.status = "ok" =>
                      /\ p.err <=> ErrorsUnder(Tree, root) # {}
                      /\ p.err => p.error \in ErrorsUnder(Tree, root) /\ StillUnread(p.t, p.error)
        /\ LET error == ErrorFor(Tree, root, 0)
               first == iter_calls(Tree, iter_access(Tree), 1)
           IN  (error # "none" /\ len > 0) =>
                   /\ first.items[1] = ErrItem(error)
                   /\ StillUnread(first.t, error)

\* a get on a loaded tree has returned the error of a file that is missing or
\* does not decode, below a root that it made resident
C22_Witness ==
    /\ last.op = "get"
    /\ last.err
    /\ last.error \in {"IO", "Serde"}
    /\ status = "ok"
    /\ heap[root].kind = "internal"
    /\ StillUnread(Tree, last.error)

\* the get that failed on a missing file
GetMissingSeen == C22_Witness /\ last.error = "IO"

\* the get that failed on a file that does not decode
GetUndecodableSeen == C22_Witness /\ last.error = "Serde"

\* the calls of next() on a fresh iterator of the tree: two more than it has
\* entries
IterRun == iter_calls(Tree, iter_access(Tree), len + 2)

\* the number of Ok items among the first i items
OkItems(items, i) == Cardinality({j \in 1..i : items[j].kind = "ok"})

\* C26: an iterator of the disk backend yields a failed load as an Err item
\* with the error of the file, returns None at every call after an Err item,
\* and reports a remaining length that starts at the len of the tree and is
\* one less after each Ok item
C26_IteratorContract ==
    (status = "ok" /\ IterRun.t.status = "ok") =>
        /\ iter_access(Tree).len = len
        /\ \A i \in 1..(len + 2) :
              LET before == iter_calls(Tree, iter_access(Tree), i - 1)
                  item == IterRun.items[i]
              IN  /\ IterRun.lens[i] = len - OkItems(IterRun.items, i)
                  /\ item.kind = "err" =>
                        /\ item.error \in {"IO", "Serde"}
                        /\ StillUnread(IterRun.t, item.error)
                        /\ \A j \in (i + 1)..(len + 2) : IterRun.items[j] = NoItem
                  /\ ( /\ before.it.len > 0
                       /\ ~before.it.errored
                       /\ before.it.cursor # NULL
                       /\ ErrorFor(before.t, before.it.cursor, 0) # "none" ) =>
                        item = ErrItem(ErrorFor(before.t, before.it.cursor, 0))

\* the iterator of a loaded tree yields the entries of its first leaf and
\* then an Err item for the next leaf, whose file cannot be read
C26_Witness ==
    /\ status = "ok"
    /\ IterRun.t.status = "ok"
    /\ \E i \in 2..(len + 1) :
          /\ IterRun.items[i].kind = "err"
          /\ \A j \in 1..(i - 1) : IterRun.items[j].kind = "ok"
          /\ IterRun.lens[i] = len - (i - 1)
          /\ IterRun.items[i + 1] = NoItem

\* the resident nodes of tree t reached from cell a through resident nodes
RECURSIVE LoadedUnder(_, _)
LoadedUnder(t, a) ==
    IF a \notin DOMAIN t.heap \/ t.heap[a].kind = "unloaded"
    THEN {}
    ELSE {a} \cup UNION {LoadedUnder(t, t.heap[a].children[i]) :
                            i \in 1..Len(t.heap[a].children)}

LoadedNodes(t) == IF t.root = NULL THEN {} ELSE LoadedUnder(t, t.root)

\* the keys stored in the resident leaves under cell a
LoadedKeysUnder(t, a) ==
    UNION {Range(t.heap[b].keys) : b \in {c \in LoadedUnder(t, a) : t.heap[c].kind = "leaf"}}

\* the number of entries in the files under the file of uuid u, as far as
\* they can be read
RECURSIVE FileEntries(_, _)
RECURSIVE FileEntriesAll(_, _)
FileEntries(d, u) ==
    IF ~Readable(d, u)
    THEN 0
    ELSE IF d.nodes[u].kind = "leaf"
    THEN Len(d.nodes[u].keys)
    ELSE FileEntriesAll(d, d.nodes[u].children)

FileEntriesAll(d, us) ==
    IF us = <<>> THEN 0 ELSE FileEntries(d, Head(us)) + FileEntriesAll(d, Tail(us))

\* the number of entries under cell a of tree t: those of the resident
\* leaves, and those of the files of the reference-only cells
RECURSIVE KnownEntries(_, _)
RECURSIVE KnownEntriesAll(_, _)
KnownEntries(t, a) ==
    IF a \notin DOMAIN t.heap
    THEN 0
    ELSE IF t.heap[a].kind = "unloaded"
    THEN FileEntries(t.disk, t.heap[a].uuid)
    ELSE IF t.heap[a].kind = "leaf"
    THEN Len(t.heap[a].keys)
    ELSE KnownEntriesAll(t, t.heap[a].children)

KnownEntriesAll(t, as) ==
    IF as = <<>> THEN 0 ELSE KnownEntries(t, Head(as)) + KnownEntriesAll(t, Tail(as))

\* the size bounds over the resident nodes of tree t
SizeBoundsOf(t) ==
    \A a \in LoadedNodes(t) :
        LET node == t.heap[a]
        IN  /\ a # t.root =>
                  /\ Len(node.keys) <= order
                  /\ Len(node.keys) >= IF node.kind = "leaf" THEN DivCeil2(order)
                                       ELSE order \div 2
            /\ node.kind = "internal" => Len(node.children) = Len(node.keys) + 1

\* the order of the keys within each resident node of tree t
OrderedOf(t) ==
    \A a \in LoadedNodes(t) :
        /\ StrictlyAscending(t.heap[a].keys)
        /\ t.heap[a].kind = "leaf" => Len(t.heap[a].values) = Len(t.heap[a].keys)

\* the separators of the resident internal nodes of tree t against the keys
\* of the resident leaves under them
SeparatedOf(t) ==
    \A a \in LoadedNodes(t) :
        t.heap[a].kind = "internal" =>
            \A i \in 0..(Len(t.heap[a].keys) - 1) :
                /\ i + 1 < Len(t.heap[a].children)
                /\ \A k \in LoadedKeysUnder(t, At(t.heap[a].children, i)) :
                      k < At(t.heap[a].keys, i)
                /\ \A k \in LoadedKeysUnder(t, At(t.heap[a].children, i + 1)) :
                      k >= At(t.heap[a].keys, i)

\* the entries that len counts beyond those that are under the root
UncountedOf(t) == t.len - (IF t.root = NULL THEN 0 ELSE KnownEntries(t, t.root))

\* an insert or remove that returned r with an error has kept what held of
\* the tree before it
KeptBy(r) ==
    (r.err /\ r.t.status = "ok") =>
        /\ r.error \in {"IO", "Serde"}
        /\ SizeBoundsOf(Tree) => SizeBoundsOf(r.t)
        /\ OrderedOf(Tree) => OrderedOf(r.t)
        /\ SeparatedOf(Tree) => SeparatedOf(r.t)
        /\ UncountedOf(r.t) = UncountedOf(Tree)

\* C23: an insert or remove of the disk backend that fails with an I/O or
\* codec error partway returns that error and leaves the tree in memory
\* within the size bounds, ordered within each node, consistent with its
\* separators, and with len counting its entries
C23_FailureKeepsInvariants ==
    status = "ok" =>
        \A k \in CallKeys :
            /\ KeptBy(insert_access(Tree, k, k))
            /\ KeptBy(remove_entry_access(Tree, k))

\* a remove on a loaded tree of two leaves, one of whose files is lost, takes
\* the key out of the other leaf and fails on the lost one: the leaf is left
\* underfull
C23_Witness ==
    /\ status = "ok"
    /\ last.op = "load"
    /\ SizeBoundsOf(Tree)
    /\ \E k \in CallKeys :
          LET r == remove_entry_access(Tree, k)
          IN  /\ r.err
              /\ r.error = "IO"
              /\ r.t.status = "ok"
              /\ r.t.len = len - 1
              /\ ~SizeBoundsOf(r.t)

\* the keys stored in the leaves under cell a of heap h
KeysUnder(h, a) == Range(KeysOf(h, Leaves(h, a)))

\* tree t, the result of an insert into the current tree, has a new root over
\* the old one
RootSplitIn(t) == t.status = "ok" /\ root # NULL /\ t.root # root

\* the new root of tree t is as a split of the old root makes it
SplitRootOf(t) ==
    LET new_root == t.heap[t.root]
        sibling == At(new_root.children, 1)
    IN  /\ t.root \notin DOMAIN heap
        /\ new_root.kind = "internal"
        /\ new_root.parent = NULL
        /\ Len(new_root.keys) = 1
        /\ Len(new_root.children) = 2
        /\ At(new_root.children, 0) = root
        /\ sibling \in DOMAIN t.heap \ DOMAIN heap
        /\ t.heap[sibling].kind = heap[root].kind
        /\ t.heap[root].parent = t.root
        /\ t.heap[sibling].parent = t.root
        /\ \A k \in KeysUnder(t.heap, root) : k < At(new_root.keys, 0)
        /\ \A k \in KeysUnder(t.heap, sibling) : k >= At(new_root.keys, 0)
        /\ t.heap[sibling].kind = "leaf" => At(new_root.keys, 0) = At(t.heap[sibling].keys, 0)

\* C31: an insert that splits the root, a leaf or an internal node, makes a
\* new internal root with the promoted separator as its one key and the old
\* root and its new sibling as its two children, sets the parent of both to
\* it and installs it as the root; no other insert changes the root of a
\* tree that has one, and no insert leaves the root overfull
C31_RootSplit ==
    status = "ok" =>
        \A in \in InsertInputs :
            LET t == insert(Tree, in[1], in[2]).t
            IN  /\ RootSplitIn(t) => SplitRootOf(t)
                /\ (t.status = "ok" /\ root # NULL) =>
                       /\ Len(t.heap[t.root].keys) <= order
                       /\ t.root # root => Len(heap[root].keys) = order

\* a root leaf has been split by the last insert
C31_Witness ==
    /\ status \in {"ok", "panic"}
    /\ root # NULL
    /\ heap[root].kind = "internal"
    /\ Len(heap[root].keys) = 1
    /\ \A i \in 1..2 : heap[heap[root].children[i]].kind = "leaf"
    /\ len = order + 1

\* the insert ahead splits an internal root
InternalRootSplitAhead ==
    /\ status = "ok"
    /\ root # NULL
    /\ heap[root].kind = "internal"
    /\ \E in \in InsertInputs : RootSplitIn(insert(Tree, in[1], in[2]).t)

\* the ascending sequence of the keys of s and key
WithKey(s, key) == Ascending(Range(s) \cup {key})

\* the nodes of heap h that list cell a among their children
ParentsOf(h, a) ==
    {p \in DOMAIN h : h[p].kind = "internal" /\ a \in Range(h[p].children)}

\* the nodes met from cell a upwards through parent links, at most as many
\* as heap h has cells
RECURSIVE Upwards(_, _, _)
Upwards(h, a, fuel) ==
    IF a = NULL \/ a \notin DOMAIN h \/ fuel = 0
    THEN {}
    ELSE {a} \cup Upwards(h, h[a].parent, fuel - 1)

AncestorsOf(h, a) == Upwards(h, h[a].parent, Cardinality(DOMAIN h))

\* the insert of (key, value) into the current tree splits leaf `leaf`
SplitsLeaf(leaf, key) ==
    /\ root # NULL
    /\ leaf = descend(heap, root, 0, key).cursor
    /\ heap[leaf].kind = "leaf"
    /\ key \notin Range(heap[leaf].keys)
    /\ Len(heap[leaf].keys) = order

\* tree t is the current tree after the insert of (key, value) has split
\* leaf `leaf`
LeafSplitOf(t, leaf, key, value) ==
    LET all == WithKey(heap[leaf].keys, key)
        s == (order + 1) \div 2
        left == t.heap[leaf]
        sibling == left.next_leaf
        right == t.heap[sibling]
        value_of(k) == IF k = key THEN value
                       ELSE heap[leaf].values[CHOOSE i \in 1..order : heap[leaf].keys[i] = k]
    IN  /\ left.keys = SubSeq(all, 1, s)
        /\ sibling \in DOMAIN t.heap \ DOMAIN heap
        /\ right.kind = "leaf"
        /\ right.keys = SubSeq(all, s + 1, order + 1)
        /\ left.values = [i \in 1..s |-> value_of(all[i])]
        /\ right.values = [i \in 1..(order + 1 - s) |-> value_of(all[s + i])]
        /\ right.next_leaf = heap[leaf].next_leaf
        /\ ParentsOf(t.heap, sibling) = {right.parent}
        /\ \E a \in AncestorsOf(t.heap, sibling) : right.keys[1] \in Range(t.heap[a].keys)
        /\ (leaf # root /\ Len(heap[heap[leaf].parent].keys) < order) =>
               /\ right.parent = heap[leaf].parent
               /\ \E i \in 1..Len(t.heap[right.parent].keys) :
                     /\ t.heap[right.parent].keys[i] = right.keys[1]
                     /\ t.heap[right.parent].children[i] = leaf
                     /\ t.heap[right.parent].children[i + 1] = sibling
               /\ Len(t.heap[right.parent].keys) = Len(heap[right.parent].keys) + 1

\* C32: an insert that makes a leaf hold order + 1 keys splits it at index
\* floor((order + 1) / 2): the leaf keeps the low half, a new right leaf
\* takes the high half with the matching values, the separator in the parent
\* is the first key of the right leaf, which stays in that leaf, the right
\* leaf takes the parent and the next_leaf of the leaf, and the next_leaf of
\* the leaf becomes the right leaf
C32_LeafSplit ==
    status = "ok" =>
        \A in \in InsertInputs : \A leaf \in DOMAIN heap :
            LET t == insert(Tree, in[1], in[2]).t
            IN  (SplitsLeaf(leaf, in[1]) /\ t.status = "ok") =>
                    LeafSplitOf(t, leaf, in[1], in[2])

\* the insert ahead splits a leaf in the middle of the chain, under a parent
\* that has room
C32_Witness ==
    /\ status = "ok"
    /\ \E in \in InsertInputs : \E leaf \in DOMAIN heap :
          /\ SplitsLeaf(leaf, in[1])
          /\ heap[leaf].next_leaf # NULL
          /\ leaf # root
          /\ Len(heap[heap[leaf].parent].keys) < order
          /\ insert(Tree, in[1], in[2]).t.status = "ok"

\* the insert ahead splits a leaf under a parent that is full
LeafSplitUnderFullParent ==
    /\ status = "ok"
    /\ \E in \in InsertInputs : \E leaf \in DOMAIN heap :
          /\ SplitsLeaf(leaf, in[1])
          /\ leaf # root
          /\ Len(heap[heap[leaf].parent].keys) = order
          /\ insert(Tree, in[1], in[2]).t.status = "ok"

\* the separators of the nodes above cell a of heap h
InternalKeysAbove(h, a) == UNION {Range(h[b].keys) : b \in AncestorsOf(h, a)}

\* the internal nodes of the current tree that the insert leading to tree t
\* has split: an insert takes keys out of a node only by splitting it
SplitInternals(t) ==
    {a \in DOMAIN heap : /\ heap[a].kind = "internal"
                         /\ Len(t.heap[a].keys) < Len(heap[a].keys)}

\* cell sibling of tree t is the right half of the split of internal node a
InternalSplitOf(t, a, sibling) ==
    LET s == (order + 1) \div 2
        left == t.heap[a]
        right == t.heap[sibling]
        all == Ascending(Range(left.keys) \cup Range(right.keys)
                             \cup (InternalKeysAbove(t.heap, sibling) \ InternalKeysAbove(heap, a)))
        children == left.children \o right.children
    IN  /\ right.kind = "internal"
        /\ Len(heap[a].keys) = order
        /\ Len(all) = order + 1
        /\ Range(heap[a].keys) \subseteq Range(all)
        /\ left.keys = SubSeq(all, 1, s)
        /\ right.keys = SubSeq(all, s + 2, order + 1)
        /\ all[s + 1] \in InternalKeysAbove(t.heap, sibling)
        /\ Len(left.children) = s + 1
        /\ Len(right.children) = order + 1 - s
        /\ \E j \in 0..(order + 1) :
              /\ RemoveAt(children, j) = heap[a].children
              /\ At(children, j) \notin DOMAIN heap
        /\ \A i \in 1..Len(right.children) : t.heap[right.children[i]].parent = sibling
        /\ \A i \in 1..Len(left.children) : t.heap[left.children[i]].parent = a
        /\ ParentsOf(t.heap, sibling) = {right.parent}
        /\ ParentsOf(t.heap, a) = {left.parent}
        /\ (a # root /\ Len(heap[heap[a].parent].keys) < order) =>
               right.parent = heap[a].parent

\* C33: an insert that makes an internal node hold order + 1 keys splits it
\* at s = floor((order + 1) / 2): the key at index s moves up and stays in
\* neither half, the node keeps keys [0..s) and children [0..s], a new right
\* sibling takes the keys after s and the children from s + 1, the sibling
\* takes the parent of the node, and every child moved to the sibling has
\* the sibling as its parent
C33_InternalSplit ==
    status = "ok" =>
        \A in \in InsertInputs :
            LET t == insert(Tree, in[1], in[2]).t
            IN  t.status = "ok" =>
                    /\ \A a \in SplitInternals(t) :
                          \E sibling \in DOMAIN t.heap \ DOMAIN heap :
                              InternalSplitOf(t, a, sibling)
                    /\ \A a \in DOMAIN heap :
                          heap[a].kind = "internal" => Len(t.heap[a].keys) <= order

\* the insert ahead splits an internal node whose children are leaves
C33_Witness ==
    /\ status = "ok"
    /\ \E in \in InsertInputs :
          LET t == insert(Tree, in[1], in[2]).t
          IN  /\ t.status = "ok"
              /\ \E a \in SplitInternals(t) :
                    \E sibling \in DOMAIN t.heap \ DOMAIN heap :
                        /\ InternalSplitOf(t, a, sibling)
                        /\ t.heap[At(t.heap[sibling].children, 0)].kind = "leaf"

\* the fewest keys a non-root node of this kind may hold
MinKeys(node) == IF node.kind = "leaf" THEN DivCeil2(order) ELSE order \div 2

\* the sibling of cell a at distance d among the children of its parent in
\* the current tree, NULL where there is none
SiblingAt(a, d) ==
    LET children == heap[heap[a].parent].children
        i == Position(children, a) + d
    IN  IF 0 <= i /\ i < Len(children) THEN At(children, i) ELSE NULL

CanLend(a) == a # NULL /\ Len(heap[a].keys) > MinKeys(heap[a])

\* the step the priority gives for cell a once it is underfull
ExpectedStep(a) ==
    IF CanLend(SiblingAt(a, -1)) THEN "borrow left"
    ELSE IF CanLend(SiblingAt(a, 1)) THEN "borrow right"
    ELSE IF SiblingAt(a, -1) # NULL THEN "merge left"
    ELSE "merge right"

\* the keys cell a holds in heap h, none where it is freed
KeyCount(h, a) == IF a \in DOMAIN h THEN Len(h[a].keys) ELSE 0

\* the steps that the key counts of cell a and of its siblings in tree t
\* show, where a has lost one key before the step; a merged leaf takes the
\* keys of the other, a merged internal node the separator as well
StepsSeen(t, a) ==
    LET left == SiblingAt(a, -1)
        right == SiblingAt(a, 1)
        had == Len(heap[a].keys) - 1
        pulled == IF heap[a].kind = "leaf" THEN 0 ELSE 1
        same(b) == b # NULL => (b \in DOMAIN t.heap /\ KeyCount(t.heap, b) = KeyCount(heap, b))
    IN  {s \in {"borrow left", "borrow right", "merge left", "merge right"} :
            \/ /\ s = "borrow left"
               /\ left # NULL /\ left \in DOMAIN t.heap /\ a \in DOMAIN t.heap
               /\ KeyCount(t.heap, left) = KeyCount(heap, left) - 1
               /\ KeyCount(t.heap, a) = had + 1
               /\ same(right)
            \/ /\ s = "borrow right"
               /\ right # NULL /\ right \in DOMAIN t.heap /\ a \in DOMAIN t.heap
               /\ KeyCount(t.heap, right) = KeyCount(heap, right) - 1
               /\ KeyCount(t.heap, a) = had + 1
               /\ same(left)
            \/ /\ s = "merge left"
               /\ left # NULL /\ left \in DOMAIN t.heap /\ a \notin DOMAIN t.heap
               /\ KeyCount(t.heap, left) = KeyCount(heap, left) + had + pulled
               /\ same(right)
            \/ /\ s = "merge right"
               /\ right # NULL /\ right \notin DOMAIN t.heap /\ a \in DOMAIN t.heap
               /\ KeyCount(t.heap, a) = had + KeyCount(heap, right) + pulled
               /\ same(left)}

\* the remove of `key` leaves leaf a underfull
LeafUnderfullBy(a, key) ==
    /\ root # NULL
    /\ a = descend(heap, root, 0, key).cursor
    /\ a # root
    /\ key \in Range(heap[a].keys)
    /\ Len(heap[a].keys) - 1 < MinKeys(heap[a])

\* the remove of `key` merges two leaves under internal node a and leaves it
\* underfull
InternalUnderfullBy(a, key) ==
    /\ a # root
    /\ heap[a].kind = "internal"
    /\ Len(heap[a].keys) - 1 < MinKeys(heap[a])
    /\ \E leaf \in Range(heap[a].children) :
          /\ LeafUnderfullBy(leaf, key)
          /\ ExpectedStep(leaf) \in {"merge left", "merge right"}

\* C34: a remove that leaves a non-root node, leaf or internal, underfull
\* takes exactly one step for it: a borrow from the left sibling if there is
\* one with more than the minimum, else a borrow from the right sibling if
\* there is one with more than the minimum, else a merge into the left
\* sibling if there is one, else a merge of the right sibling into the node;
\* no node is merged while a sibling beside it can lend
C34_RebalancePriority ==
    status = "ok" =>
        \A k \in CallKeys : \A a \in DOMAIN heap :
            LET t == remove_entry(Tree, k).t
            IN  (LeafUnderfullBy(a, k) \/ InternalUnderfullBy(a, k)) =>
                    /\ t.status = "ok"
                    /\ StepsSeen(t, a) = {ExpectedStep(a)}

\* the remove ahead leaves a leaf underfull beside a left sibling that cannot
\* lend and a right sibling that can
C34_Witness ==
    /\ status = "ok"
    /\ \E k \in CallKeys : \E a \in DOMAIN heap :
          /\ LeafUnderfullBy(a, k)
          /\ ExpectedStep(a) = "borrow right"
          /\ SiblingAt(a, -1) # NULL

\* the remove ahead takes this step for a leaf
LeafStepAhead(step) ==
    status = "ok" /\ \E k \in CallKeys : \E a \in DOMAIN heap :
                         LeafUnderfullBy(a, k) /\ ExpectedStep(a) = step

\* the remove ahead takes this step for an internal node
InternalStepAhead(step) ==
    status = "ok" /\ \E k \in CallKeys : \E a \in DOMAIN heap :
                         InternalUnderfullBy(a, k) /\ ExpectedStep(a) = step

\* the cells that the cells of S name as a child or as next_leaf in heap h
LinkedFrom(h, S) ==
    UNION {Range(h[a].children) \cup ({h[a].next_leaf} \ {NULL}) : a \in S \cap DOMAIN h}

RECURSIVE LinkClosure(_, _, _)
LinkClosure(h, S, fuel) ==
    IF fuel = 0 \/ LinkedFrom(h, S) \subseteq S
    THEN S
    ELSE LinkClosure(h, S \cup LinkedFrom(h, S), fuel - 1)

\* the cells reached from the root of tree t through child links and
\* next_leaf links, freed ones included
LinkReachable(t) ==
    IF t.root = NULL THEN {}
    ELSE LinkClosure(t.heap, {t.root}, Cardinality(DOMAIN t.heap) + 1)

\* the cells that the remove of `key` frees
FreedBy(key) == DOMAIN heap \ DOMAIN remove_entry(Tree, key).t.heap

\* C35: after a remove every node reached from the root through child links
\* and next_leaf links is allocated, and no node that the remove freed, by a
\* merge, by a root shrink or by emptying the root, is named by a child link
\* or a next_leaf link of a node so reached
C35_NoFreedNodeReachable ==
    status = "ok" =>
        \A k \in CallKeys :
            LET t == remove_entry(Tree, k).t
            IN  /\ t.status = "ok"
                /\ LinkReachable(t) \subseteq DOMAIN t.heap
                /\ LinkedFrom(t.heap, LinkReachable(t)) \cap FreedBy(k) = {}

\* the remove ahead merges two leaves and two internal nodes and shrinks the
\* root
C35_Witness ==
    /\ status = "ok"
    /\ \E k \in CallKeys :
          /\ Cardinality(FreedBy(k)) >= 3
          /\ remove_entry(Tree, k).t.root \notin {root, NULL}

\* the remove ahead empties the root
RemoveEmptiesRoot ==
    /\ status = "ok"
    /\ \E k \in CallKeys : root \in FreedBy(k) /\ remove_entry(Tree, k).t.root = NULL

\* the resident cells of tree t that hold a copy of a node of which another
\* resident cell holds a copy too
DoubledCells(t) ==
    {a \in ResidentIn(t) : \E b \in ResidentIn(t) : b # a /\ t.heap[b].uuid = t.heap[a].uuid}

\* the entries get() reports on tree t
GetEntries(t) ==
    {<<k, get_key_value_access(t, k).ret.value>> :
        k \in {x \in CallKeys : get_key_value_access(t, x).ret.some}}

\* the items iter() yields on tree t up to its first None
IterItems(t) ==
    LET items == iter_calls(t, iter_access(t), t.len + 2).items
    IN  SelectSeq(items, LAMBDA item : item.kind # "none")

IterEntries(t) ==
    {<<IterItems(t)[i].key, IterItems(t)[i].value>> : i \in 1..Len(IterItems(t))}

\* the insert or the remove returns on tree t with every node in one
\* resident cell, and iter() yields exactly the entries get() reports
SharedAfter(r) ==
    /\ r.t.status = "ok"
    /\ ~r.err
    /\ DoubledCells(r.t) = {}
    /\ get_key_value_access(r.t, 1).t.status = "ok"
    /\ iter_calls(r.t, iter_access(r.t), r.t.len + 2).t.status = "ok"
    /\ \A i \in 1..Len(IterItems(r.t)) : IterItems(r.t)[i].kind = "ok"
    /\ Len(IterItems(r.t)) = Cardinality(GetEntries(r.t))
    /\ IterEntries(r.t) = GetEntries(r.t)

\* every file of tree t can be read: iter() yields len entries and no error
AllReadable(t) ==
    /\ Len(IterItems(t)) = t.len
    /\ \A i \in 1..Len(IterItems(t)) : IterItems(t)[i].kind = "ok"
    /\ Cardinality(IterEntries(t)) = t.len
    /\ IterEntries(t) = GetEntries(t)

\* the tree is as load() and the lookups after it have left it, and its
\* files are those of a tree that was persisted whole
LoadedTree ==
    /\ status = "ok"
    /\ ~Resident
    /\ disk.root # NULL
    /\ flags = CleanFlags
    /\ DoubledCells(Tree) = {}
    /\ AllReadable(Tree)

\* C36: after load() every link to a node resolves to one resident copy of
\* it, so that after an insert or a remove on the loaded tree iter() yields
\* exactly the entries that get() reports
C36_LoadedLinksShared ==
    LoadedTree =>
        /\ \A in \in InsertInputs : SharedAfter(insert_access(Tree, in[1], in[2]))
        /\ \A k \in CallKeys : SharedAfter(remove_entry_access(Tree, k))

\* a tree of two levels has been loaded and the remove ahead merges two of
\* its leaves: the parent link of the leaf resolves to a second copy of the
\* root, which is not the root, and the call panics
C36_Witness ==
    /\ LoadedTree
    /\ \E k \in CallKeys :
          LET r == remove_entry_access(Tree, k)
          IN  /\ r.t.status = "panic"
              /\ DoubledCells(r.t) # {}
              /\ \E a \in DoubledCells(r.t) : r.t.heap[a].uuid = disk.root

\* C37: the root has no parent reference, so that the walk along parent
\* links from any node ends at the root and meets no freed node (stated of
\* trees whose nodes are all resident, where every link is one cell)
C37_RootWithoutParent ==
    (status = "ok" /\ root # NULL /\ Resident) =>
        /\ heap[root].parent = NULL
        /\ \A a \in Reachable : root \in AncestorsOf(heap, a) \cup {a}
        /\ \A a \in Reachable : heap[a].parent \in DOMAIN heap \cup {NULL}

\* a root shrink has left the promoted root with the reference to the freed
\* old root, and the release of a mutation guard has walked into it
C37_Witness ==
    /\ last.op = "get_mut"
    /\ status = "ub"
    /\ root \in DOMAIN heap
    /\ heap[root].parent = DANGLING

\* the promoted root holds a reference to the freed old root
RootParentDangling == status = "ok" /\ root # NULL /\ heap[root].parent = DANGLING

\* the depths at which the leaves below cell a of heap h lie, and those at
\* which a child link leads nowhere, where a lies at depth d
RECURSIVE LeafDepths(_, _, _)
LeafDepths(h, a, d) ==
    IF a \notin DOMAIN h
    THEN {-d}
    ELSE IF h[a].kind = "leaf"
    THEN {d}
    ELSE IF h[a].children = <<>>
    THEN {-d}
    ELSE UNION {LeafDepths(h, h[a].children[i], d + 1) : i \in 1..Len(h[a].children)}

\* all leaves of tree t lie at depth n below the root; 0 for the empty tree
Level(t, n) ==
    IF t.root = NULL THEN n = 0 ELSE n > 0 /\ LeafDepths(t.heap, t.root, 1) = {n}

Levels == 0..(MaxKey + 1)

\* the root of the call's result is a new node above the old root
RootSplitBy(t) ==
    /\ root # NULL
    /\ t.root \notin DOMAIN heap \cup {NULL}
    /\ Len(heap[root].keys) = order
    /\ root \in Range(t.heap[t.root].children)

\* the call has freed an internal root that held one key, and a child of it
\* is the root of the result
RootShrunkBy(t) ==
    /\ root # NULL
    /\ heap[root].kind = "internal"
    /\ Len(heap[root].keys) = 1
    /\ root \notin DOMAIN t.heap
    /\ t.root \in Range(heap[root].children)

\* C38: after every insert and every remove all leaves are at one depth;
\* the height grows by one exactly when the root splits, shrinks by one
\* exactly when an internal root loses its last key, and does not change
\* otherwise (the first insert makes the one leaf, the last remove frees it)
C38_UniformDepth ==
    status = "ok" =>
        \E n \in Levels :
            /\ Level(Tree, n)
            /\ \A in \in InsertInputs :
                  LET t == insert(Tree, in[1], in[2]).t
                  IN  /\ t.status = "ok"
                      /\ IF root = NULL THEN Level(t, 1)
                         ELSE IF RootSplitBy(t) THEN Level(t, n + 1)
                         ELSE t.root = root /\ Level(t, n)
            /\ \A k \in CallKeys :
                  LET t == remove_entry(Tree, k).t
                  IN  /\ t.status = "ok"
                      /\ IF t.root = NULL THEN n <= 1
                         ELSE IF RootShrunkBy(t) THEN Level(t, n - 1)
                         ELSE t.root = root /\ Level(t, n)

\* the tree has three levels and the remove ahead shrinks it to two
C38_Witness ==
    /\ status = "ok"
    /\ Level(Tree, 3)
    /\ \E k \in CallKeys : RootShrunkBy(remove_entry(Tree, k).t)

\* the insert ahead splits an internal root
RootGrowsAhead ==
    /\ status = "ok"
    /\ Level(Tree, 2)
    /\ \E in \in InsertInputs : RootSplitBy(insert(Tree, in[1], in[2]).t)

\* the leaf at which the descent for `key` ends
DescentLeaf(key) == descend(heap, root, 0, key).cursor

\* the descent for `key` ends at a leaf, after one step per level
DescentEnds(key) ==
    /\ DescentLeaf(key) \in DOMAIN heap
    /\ heap[DescentLeaf(key)].kind = "leaf"
    /\ Cardinality(AncestorsOf(heap, DescentLeaf(key))) + 1 = Height(heap, root)

\* the nodes on which insert_internal is called in the insert that gives
\* tree t: the parents of the nodes below the root that have split, a split
\* node being one that has lost keys
InsertInternalCursors(t) ==
    {heap[a].parent : a \in {b \in DOMAIN heap \ {root} :
                                Len(t.heap[b].keys) < Len(heap[b].keys)}}

\* the nodes on which remove_entry_internal is called in the remove that
\* gives tree t: the parents of the nodes it has freed
RemoveInternalCursors(t) ==
    {heap[a].parent : a \in (DOMAIN heap \ DOMAIN t.heap) \ {root}}

\* the cells of S are the parent of the leaf, its parent, and so on without
\* a gap, and are at most as many as the tree has levels above the leaves
ChainAbove(S, leaf) ==
    /\ S \subseteq AncestorsOf(heap, leaf)
    /\ \A c \in S : c = heap[leaf].parent \/ \E b \in S : heap[b].parent = c
    /\ Cardinality(S) <= Height(heap, root) - 1

\* C39: every insert and every remove returns: the descent ends at a leaf
\* after one step per level, and the calls of insert_internal and of
\* remove_entry_internal are made on the parent of the leaf, then on its
\* parent, and so on, one call per node, so that they are at most as many
\* as the tree is high
C39_BoundedRecursion ==
    (status = "ok" /\ root # NULL) =>
        /\ \A in \in InsertInputs :
              LET t == insert(Tree, in[1], in[2]).t
                  fresh == DOMAIN t.heap \ DOMAIN heap
              IN  /\ DescentEnds(in[1])
                  /\ t.status = "ok"
                  /\ ChainAbove(InsertInternalCursors(t), DescentLeaf(in[1]))
                  /\ Cardinality(InsertInternalCursors(t))
                        = Cardinality(fresh) - (IF t.root # root THEN 2 ELSE 0)
        /\ \A k \in CallKeys :
              LET t == remove_entry(Tree, k).t
                  freed == DOMAIN heap \ DOMAIN t.heap
              IN  /\ DescentEnds(k)
                  /\ t.status = "ok"
                  /\ ChainAbove(RemoveInternalCursors(t), DescentLeaf(k))
                  /\ Cardinality(RemoveInternalCursors(t)) = Cardinality(freed \ {root})

\* the tree has three levels and the remove ahead calls
\* remove_entry_internal on the parent of the leaf and then on the root
C39_Witness ==
    /\ status = "ok"
    /\ root # NULL
    /\ Height(heap, root) = 3
    /\ \E k \in CallKeys :
          Cardinality(RemoveInternalCursors(remove_entry(Tree, k).t)) = 2

\* the insert ahead splits a leaf below the root and calls insert_internal
InsertInternalAhead ==
    /\ status = "ok"
    /\ root # NULL
    /\ Height(heap, root) = 3
    /\ \E in \in InsertInputs :
          Cardinality(InsertInternalCursors(insert(Tree, in[1], in[2]).t)) = 1

====
